---------------------------- MODULE Spec2Model ----------------------------
(***************************************************************************)
(* The drawing tools of agent/tools/acad.py as a state machine over the    *)
(* model space of the drawing (the list of entities), the layer table and  *)
(* the active layer.  Each tool call is one action; its return value (or   *)
(* the fact that it raised) is recorded in ret.                            *)
(*                                                                         *)
(* Numbers.  The code computes in floating point; the model computes in    *)
(* fixed point.  Coordinates, lengths and radii are integers ("ticks", one *)
(* drawing unit each), every division and square root is rounded to the    *)
(* nearest tick as floating point rounds to the nearest double.  Scenes    *)
(* are laid out on a grid of 100 ticks, so that a grid length is resolved  *)
(* to 1 %.  Tolerances are counted in quarters of a tick: the defaults     *)
(* _POS_TOL = _MIN_SIDE = 1e-6 are far below a tick and are modelled by    *)
(* one quarter, against which every comparison of a tick (or half-tick)    *)
(* quantity has the outcome it has against 1e-6.                           *)
(***************************************************************************)
EXTENDS Integers, Sequences, FiniteSets, TLC

---------------------------------------------------------------------------
(* Fixed-point arithmetic *)

Abs(x) == IF x < 0 THEN -x ELSE x

Max2(a, b) == IF a >= b THEN a ELSE b

Min2(a, b) == IF a <= b THEN a ELSE b

\* a / b rounded to the nearest integer (b > 0), halves away from zero.
RDiv(a, b) == IF a >= 0 THEN (2 * a + b) \div (2 * b)
                       ELSE -((2 * (-a) + b) \div (2 * b))

RECURSIVE SqrtIter(_, _)
SqrtIter(n, x) == LET y == (x + n \div x) \div 2
                  IN  IF y >= x THEN x ELSE SqrtIter(n, y)

\* floor(sqrt(n))
ISqrt(n) == IF n <= 0 THEN 0 ELSE SqrtIter(n, n)

\* sqrt(n) rounded to the nearest integer
RSqrt(n) == (ISqrt(4 * n) + 1) \div 2

\* Python's round(): a / b rounded to the nearest integer, halves to even (b > 0).
PyRound(a, b) ==
    LET fl == IF a >= 0 THEN a \div b ELSE -((-a + b - 1) \div b)
        rem == a - fl * b
    IN  IF 2 * rem < b THEN fl
        ELSE IF 2 * rem > b THEN fl + 1
        ELSE IF fl % 2 = 0 THEN fl ELSE fl + 1

RECURSIVE SumSeq(_)
SumSeq(s) == IF s = <<>> THEN 0 ELSE Head(s) + SumSeq(Tail(s))

MinOf(S) == CHOOSE x \in S : \A y \in S : x <= y

MaxOf(S) == CHOOSE x \in S : \A y \in S : x >= y

Range(s) == {s[i] : i \in DOMAIN s}

\* lexicographic order on points, Python's tuple comparison
PtLess(p, q) == p[1] < q[1] \/ (p[1] = q[1] /\ p[2] < q[2])

---------------------------------------------------------------------------
(* Tolerances (acad.py:13-16), in quarters of a tick, per cent and degrees *)

\* _POS_TOL = 1e-6
POS_TOL == 1

\* _ANG_TOL_DEG = 1.0, in tenths of a degree
ANG_TOL_DEG == 10

\* _REL_LEN_TOL = 0.02, in per cent
REL_LEN_TOL == 2

\* _MIN_SIDE = 1e-6
MIN_SIDE == 1

\* sin of an angular tolerance given in tenths of a degree, in millionths
SinPpm(tenths) ==
    CASE tenths = 0  -> 0
      [] tenths = 4  -> 6981
      [] tenths = 10 -> 17452
      [] tenths = 50 -> 87156
      [] OTHER       -> RDiv(tenths * 17453, 10)

---------------------------------------------------------------------------
(* Geometry helpers (acad.py:54-199) *)

_dist(p, q) == RSqrt((p[1] - q[1]) * (p[1] - q[1]) + (p[2] - q[2]) * (p[2] - q[2]))

\* a, b in ticks; rel_tol in per cent; abs_tol in quarter ticks
_near(a, b, rel_tol, abs_tol) ==
    IF 4 * Abs(a - b) <= abs_tol THEN TRUE
    ELSE LET m4 == Max2(Max2(4 * Abs(a), 4 * Abs(b)), abs_tol)
         IN  4 * Abs(a - b) * 100 <= rel_tol * m4

\* The angle ABC, represented by its cosine in millionths: acos is strictly
\* decreasing, so |angle - 90| > tol  iff  |cos| > sin(tol).
_angle_deg(a, b, c) ==
    LET v1 == <<a[1] - b[1], a[2] - b[2]>>
        v2 == <<c[1] - b[1], c[2] - b[2]>>
        \* math.hypot(*v) or 1.0
        Or1(h) == IF h = 0 THEN 1 ELSE h
        n(v) == Or1(RSqrt(v[1] * v[1] + v[2] * v[2]))
        \* (v[0] / n, v[1] / n), in thousandths
        Unit(v, len) == <<RDiv(1000 * v[1], len), RDiv(1000 * v[2], len)>>
        \* max(-1.0, min(1.0, dot))
        Clamped(u1, u2) == Max2(-1000000, Min2(1000000, u1[1] * u2[1] + u1[2] * u2[2]))
    IN  Clamped(Unit(v1, n(v1)), Unit(v2, n(v2)))

\* an angle test that lets every angle through
NeverOff(cosppm, ang_tol_deg) == FALSE

\* abs(a - 90.0) > ang_tol_deg, for an angle given by its cosine
OffRight(cosppm, ang_tol_deg) == Abs(cosppm) > SinPpm(ang_tol_deg)

_bbox_from_points_2d(pts2) ==
    IF pts2 = <<>> THEN <<>>
    ELSE LET xs == {pts2[i][1] : i \in DOMAIN pts2}
             ys == {pts2[i][2] : i \in DOMAIN pts2}
         IN  << <<MinOf(xs), MinOf(ys)>>, <<MaxOf(xs), MaxOf(ys)>> >>

\* pts2[(i + 1) % n], 1-based
NextPt(pts2, i) == pts2[(i % Len(pts2)) + 1]

Cross(p, q) == p[1] * q[2] - q[1] * p[2]

\* the shoelace sum s of _poly_area_xy and _centroid (twice the signed area)
ShoelaceSum(pts2) == SumSeq([i \in DOMAIN pts2 |-> Cross(pts2[i], NextPt(pts2, i))])

\* twice the area of the bounding box of pts2
BoxAreaOfPts(pts2) ==
    IF pts2 = <<>> THEN 0
    ELSE 2 * (MaxOf({pts2[i][1] : i \in DOMAIN pts2}) - MinOf({pts2[i][1] : i \in DOMAIN pts2}))
           * (MaxOf({pts2[i][2] : i \in DOMAIN pts2}) - MinOf({pts2[i][2] : i \in DOMAIN pts2}))

\* _poly_area_xy returns abs(s) * 0.5; the model keeps abs(s), twice the area,
\* which is exact and orders polygons as the area does.
_poly_area_xy(pts2) == IF Len(pts2) < 3 THEN 0 ELSE Abs(ShoelaceSum(pts2))

MeanPt(pts2) ==
    LET n == Max2(1, Len(pts2))
    IN  <<RDiv(SumSeq([i \in DOMAIN pts2 |-> pts2[i][1]]), n),
          RDiv(SumSeq([i \in DOMAIN pts2 |-> pts2[i][2]]), n)>>

_centroid(pts2) ==
    IF Len(pts2) < 3 THEN MeanPt(pts2)
    ELSE LET cx_num == SumSeq([i \in DOMAIN pts2 |->
                          (pts2[i][1] + NextPt(pts2, i)[1]) * Cross(pts2[i], NextPt(pts2, i))])
             cy_num == SumSeq([i \in DOMAIN pts2 |->
                          (pts2[i][2] + NextPt(pts2, i)[2]) * Cross(pts2[i], NextPt(pts2, i))])
             Sg(signed_sum) == IF signed_sum < 0 THEN -1 ELSE 1
             Of(signed_sum) ==
                 \* A = signed_sum / 2;  abs(A) <= _POS_TOL
                 IF 2 * Abs(signed_sum) <= POS_TOL THEN MeanPt(pts2)
                 ELSE \* cx_num / (6 A) = cx_num / (3 signed_sum)
                      <<RDiv(Sg(signed_sum) * cx_num, 3 * Abs(signed_sum)),
                        RDiv(Sg(signed_sum) * cy_num, 3 * Abs(signed_sum))>>
         IN  Of(ShoelaceSum(pts2))

Sides(verts) == <<_dist(verts[1], verts[2]), _dist(verts[2], verts[3]),
                  _dist(verts[3], verts[4]), _dist(verts[4], verts[1])>>

Angles(verts) == <<_angle_deg(verts[4], verts[1], verts[2]),
                   _angle_deg(verts[1], verts[2], verts[3]),
                   _angle_deg(verts[2], verts[3], verts[4]),
                   _angle_deg(verts[3], verts[4], verts[1])>>

_is_square_vertices(verts, ang_tol_deg, rel_len_tol, min_side) ==
    IF Len(verts) # 4 THEN FALSE
    ELSE LET Test(sides, s_mean, angles) ==
                 IF \E i \in 1..4 : 4 * sides[i] < min_side THEN FALSE
                 ELSE IF \E i \in 1..4 : ~_near(sides[i], s_mean, rel_len_tol, POS_TOL) THEN FALSE
                 ELSE IF \E i \in 1..4 : OffRight(angles[i], ang_tol_deg) THEN FALSE
                 ELSE TRUE
             WithMean(sides) == Test(sides, RDiv(SumSeq(sides), 4), Angles(verts))
         IN  WithMean(Sides(verts))

_is_rectangle_vertices(verts, ang_tol_deg, rel_len_tol, min_side) ==
    IF Len(verts) # 4 THEN FALSE
    ELSE LET Test(sides, angles) ==
                 IF \E i \in 1..4 : 4 * sides[i] < min_side THEN FALSE
                 ELSE IF \E i \in 1..4 : OffRight(angles[i], ang_tol_deg) THEN FALSE
                 ELSE /\ _near(sides[1], sides[3], rel_len_tol, POS_TOL)
                      /\ _near(sides[2], sides[4], rel_len_tol, POS_TOL)
         IN  Test(Sides(verts), Angles(verts))

\* list.sort(key = ...): a stable insertion sort of items by the integer keys
\* key[i] of items[i]
RECURSIVE InsertStable(_, _)
InsertStable(s, x) ==
    IF s = <<>> THEN <<x>>
    ELSE IF x[1] < Head(s)[1] THEN <<x>> \o s
    ELSE <<Head(s)>> \o InsertStable(Tail(s), x)

RECURSIVE SortPairs(_)
SortPairs(s) ==
    IF s = <<>> THEN <<>>
    ELSE InsertStable(SortPairs(SubSeq(s, 1, Len(s) - 1)), s[Len(s)])

SortStable(items, key) ==
    LET Items(sorted) == [i \in DOMAIN sorted |-> sorted[i][2]]
    IN  Items(SortPairs([i \in DOMAIN items |-> <<key[i], items[i]>>]))

\* pts.sort(key = lambda p: (p[0], p[1])): stable by y, then stable by x
SortPts(points) ==
    LET ByX(byY) == SortStable(byY, [i \in DOMAIN byY |-> byY[i][1]])
    IN  ByX(SortStable(points, [i \in DOMAIN points |-> points[i][2]]))

\* the greedy walk of _order_loop: sort the rest by distance to the current
\* point, take the nearest, repeat
RECURSIVE Walk(_, _, _)
Walk(current, rest, n) ==
    IF n = 0 THEN <<>>
    ELSE LET Step(sorted) == <<Head(sorted)>> \o Walk(Head(sorted), Tail(sorted), n - 1)
         IN  Step(SortStable(rest, [i \in DOMAIN rest |-> _dist(current, rest[i])]))

_order_loop(points) ==
    IF Len(points) # 4 THEN points
    ELSE LET From(pts) == <<pts[1]>> \o Walk(pts[1], Tail(pts), 3)
         IN  From(SortPts(points))

---------------------------------------------------------------------------
(* Entities of the model space.  An entity is a record                     *)
(*   kind   : "line", "polyline" or "circle" (what ObjectName contains)    *)
(*   layer  : its Layer                                                     *)
(*   closed : the Closed flag of a polyline                                 *)
(*   coords : a line's StartPoint and EndPoint <<x1, y1, x2, y2>>, a        *)
(*            polyline's Coordinates array (x,y,z triples or x,y pairs), a  *)
(*            circle's Center <<x, y>>                                      *)
(*   r      : a circle's Radius                                             *)
(* Its Handle is its position in the model space.                          *)

\* layer = None
NoLayer == ""

\* a layer filter that lets every entity through
NeverSkips(e, layer) == FALSE

\* `if layer and getattr(e, "Layer", None) != layer: continue`
LayerSkips(e, layer) == layer # NoLayer /\ e.layer # layer

_is_type(e, contains) == e.kind = contains

\* acad.py:205-220: the array is read in triples; when that runs off the end
\* (IndexError) it is read in pairs; when that fails too, nothing is read.
_coords_from_polyline(e) ==
    LET arr == e.coords
        n == Len(arr)
    IN  IF n % 3 = 0
        THEN [i \in 1..(n \div 3) |-> <<arr[3 * i - 2], arr[3 * i - 1], arr[3 * i]>>]
        ELSE IF n % 2 = 0
        THEN [i \in 1..(n \div 2) |-> <<arr[2 * i - 1], arr[2 * i], 0>>]
        ELSE <<>>

_polyline_is_closed(e) == e.closed

\* the extracted vertices with a closing point left in place
VerticesWithClosing(e) ==
    LET pts3 == _coords_from_polyline(e)
    IN  [i \in DOMAIN pts3 |-> <<pts3[i][1], pts3[i][2]>>]

_polyline_vertices_2d_ordered(e) ==
    LET Opened(pts2) ==
            IF Len(pts2) >= 2 /\ 4 * _dist(pts2[1], pts2[Len(pts2)]) <= POS_TOL
            THEN SubSeq(pts2, 1, Len(pts2) - 1)
            ELSE pts2
        Of(pts3) ==
            IF pts3 = <<>> THEN <<>>
            ELSE Opened([i \in DOMAIN pts3 |-> <<pts3[i][1], pts3[i][2]>>])
    IN  Of(_coords_from_polyline(e))

---------------------------------------------------------------------------
(* Detection (acad.py:494-673) *)

\* key_pt: (round(p[0]/pos_tol)*pos_tol, round(p[1]/pos_tol)*pos_tol), a point
\* in quarter ticks (pos_tol is in quarter ticks)
key_pt(p, pos_tol) == <<PyRound(4 * p[1], pos_tol) * pos_tol,
                        PyRound(4 * p[2], pos_tol) * pos_tol>>

\* Reading the geometry of an entity (StartPoint and EndPoint of a line,
\* Center and Radius of a circle) raises when the entity holds none.
Readable(e) == e.coords # <<>>

\* the segments read up to the first line that cannot be read
SegsToFirstUnreadable(lines) ==
    LET Read(ok) == [i \in DOMAIN ok |-> << <<ok[i].coords[1], ok[i].coords[2]>>,
                                            <<ok[i].coords[3], ok[i].coords[4]>> >>]
        last == IF \A i \in DOMAIN lines : Readable(lines[i]) THEN Len(lines)
                ELSE (CHOOSE i \in DOMAIN lines :
                        ~Readable(lines[i]) /\ \A j \in 1..(i - 1) : Readable(lines[j])) - 1
    IN  Read(SubSeq(lines, 1, last))

\* the segments read from the line entities; a line that cannot be read is
\* passed over (`except Exception: continue`)
Segs(lines) ==
    LET Read(ok) == [i \in DOMAIN ok |-> << <<ok[i].coords[1], ok[i].coords[2]>>,
                                            <<ok[i].coords[3], ok[i].coords[4]>> >>]
    IN  Read(SelectSeq(lines, Readable))

\* adj[k]: the keys joined to k by a segment
Adj(segs, pos_tol, k) ==
    {key_pt(segs[i][2], pos_tol) : i \in {j \in DOMAIN segs : key_pt(segs[j][1], pos_tol) = k}}
    \cup
    {key_pt(segs[i][1], pos_tol) : i \in {j \in DOMAIN segs : key_pt(segs[j][2], pos_tol) = k}}

\* quad[min_i:] + quad[:min_i], min_i the first index of the least point
Canonical(quad) ==
    LET min_i == CHOOSE i \in 1..4 :
                    /\ \A j \in 1..4 : ~PtLess(quad[j], quad[i])
                    /\ \A j \in 1..(i - 1) : PtLess(quad[i], quad[j])
    IN  SubSeq(quad, min_i, 4) \o SubSeq(quad, 1, min_i - 1)

\* the set `loops` of _find_loops_from_lines: every 4-cycle k1 k2 k3 k4 found
\* from a segment (k1, k2), rotated to start at its least point
LoopSet(lines, pos_tol) ==
    LET segs == Segs(lines)
    IN  UNION { LET k1 == key_pt(segs[i][1], pos_tol)
                    k2 == key_pt(segs[i][2], pos_tol)
                IN  UNION { UNION { IF k1 \in Adj(segs, pos_tol, k4)
                                    THEN {Canonical(<<k1, k2, k3, k4>>)}
                                    ELSE {}
                                    : k4 \in Adj(segs, pos_tol, k3) \ {k2, k1} }
                            : k3 \in Adj(segs, pos_tol, k2) \ {k1} }
                : i \in DOMAIN segs }

\* the orders in which a set can be iterated
Orderings(S) == {f \in [1..Cardinality(S) -> S] : \A i, j \in DOMAIN f : i # j => f[i] # f[j]}

\* a key taken for the point as it stands
KeyAsPt(k) == <<k[1], k[2]>>

\* (float(x), float(y)) of a key
KeyToPt(k) == <<RDiv(k[1], 4), RDiv(k[2], 4)>>

\* _find_loops_from_lines; order is the order in which `for loop in loops`
\* visits the set
_find_loops_from_lines(lines, pos_tol, order) ==
    [i \in DOMAIN order |-> _order_loop([j \in 1..4 |-> KeyToPt(order[i][j])])]

RECURSIVE ClosedFrom(_, _, _, _, _)
ClosedFrom(space, i, layer, min_vertices, min_area) ==
    IF i > Len(space) THEN <<>>
    ELSE LET e == space[i]
             Kept(verts2, area) ==
                 IF /\ _is_type(e, "polyline")
                    /\ ~LayerSkips(e, layer)
                    /\ _polyline_is_closed(e)
                    /\ Len(verts2) >= min_vertices
                    \* area < min_area: area is abs(s)/2, min_area in 1/16 tick^2
                    /\ ~(8 * area < min_area)
                 THEN << [handle |-> i, layer |-> e.layer, vertices |-> verts2,
                          area |-> area, bbox |-> _bbox_from_points_2d(verts2)] >>
                 ELSE <<>>
             Of(verts2) == Kept(verts2, _poly_area_xy(verts2))
         IN  Of(_polyline_vertices_2d_ordered(e))
             \o ClosedFrom(space, i + 1, layer, min_vertices, min_area)

\* find_closed_polylines(...)["polylines"]
find_closed_polylines(space, layer, min_vertices, min_area) ==
    ClosedFrom(space, 1, layer, min_vertices, min_area)

\* the test of acad.py:615-618 and 645-648
Qualifies(vs, ang_tol_deg, rel_len_tol, min_side, allow_rectangles) ==
    /\ Len(vs) = 4
    /\ \/ _is_square_vertices(vs, ang_tol_deg, rel_len_tol, min_side)
       \/ (allow_rectangles /\ _is_rectangle_vertices(vs, ang_tol_deg, rel_len_tol, min_side))

ShapeOf(source, handles, vs, bbox) ==
    [source |-> source, handles |-> handles, vertices |-> vs,
     center |-> _centroid(vs),
     side |-> Min2(_dist(vs[1], vs[2]), _dist(vs[2], vs[3])),
     bbox |-> bbox]

\* One of the two loops of find_squares: append the qualifying candidates to
\* squares; `return` as soon as len(squares) >= max_count after an append.
RECURSIVE Accumulate(_, _, _, _)
Accumulate(cands, i, squares, max_count) ==
    IF i > Len(cands) THEN [squares |-> squares, returned |-> FALSE]
    ELSE IF cands[i].ok
    THEN LET more == Append(squares, cands[i].shape)
         IN  IF Len(more) >= max_count THEN [squares |-> more, returned |-> TRUE]
             ELSE Accumulate(cands, i + 1, more, max_count)
    ELSE Accumulate(cands, i + 1, squares, max_count)

\* the line entities find_squares collects (acad.py:635-641)
LineDatas(space, layer) ==
    SelectSeq(space, LAMBDA e : ~LayerSkips(e, layer) /\ _is_type(e, "line"))

\* find_squares(...)["squares"]; order: see _find_loops_from_lines
find_squares(space, layer, include_lines, pos_tol, ang_tol_deg, rel_len_tol, min_side, max_count, allow_rectangles, order) ==
    LET Checked(ok, shape) == [ok |-> ok, shape |-> IF ok THEN shape ELSE <<>>]
        Cand(source, handles, vs, bbox) ==
            Checked(Qualifies(vs, ang_tol_deg, rel_len_tol, min_side, allow_rectangles),
                    ShapeOf(source, handles, vs, bbox))
        \* the closed polylines (acad.py:612-630)
        PolyCands(polys) ==
            [i \in DOMAIN polys |->
                Cand("polyline", <<polys[i].handle>>, polys[i].vertices, polys[i].bbox)]
        \* the loops of lines (acad.py:643-663)
        LoopCands(loops) ==
            [i \in DOMAIN loops |-> Cand("lines", <<>>, loops[i], _bbox_from_points_2d(loops[i]))]
        Rest(first) ==
            IF first.returned THEN first.squares
            ELSE IF include_lines
            THEN Accumulate(LoopCands(_find_loops_from_lines(LineDatas(space, layer), pos_tol, order)),
                            1, first.squares, max_count).squares
            ELSE first.squares
    IN  Rest(Accumulate(PolyCands(find_closed_polylines(space, layer, 4, min_side * min_side)),
                        1, <<>>, max_count))

\* the loop set whose iteration order a call of find_squares depends on
LoopsOf(space, layer, pos_tol) == LoopSet(LineDatas(space, layer), pos_tol)

---------------------------------------------------------------------------
(* The drawing session *)

VARIABLES
    ms,      \* the model space: the sequence of entities, in creation order
    layers,  \* the names in the layer table
    active,  \* the active layer, which an entity drawn without a layer gets
    ret,     \* the last tool call: [op, args, n0, raised, val], n0 = Len(ms) before it
    pc,      \* where a tool call taken step by step stands: see LoopBegin
    self,    \* the Executor: its fields _stop, replan_mode, max_replans, _replans_done
    frame,   \* where Executor.run stands, with its locals: see Run
    threads  \* the watchdog threads alive, each named by the run that started it

\* the executor and what it started
executor == <<self, frame, threads>>

vars == <<ms, layers, active, ret, pc, self, frame, threads>>

\* A tool call meets a drawing sink some of whose calls fail: faults[k] says
\* how the k-th sink call of the tool call (ensure_layer, draw_circle,
\* draw_line, draw_polyline; the first is 1) fails, and the calls past
\* Len(faults) do not fail:
\*   "ok"      it does not fail;
\*   "add"     the call that creates the object (Layers.Add after Layers.Item,
\*             AddCircle, AddLine, AddPolyline) throws: nothing is created;
\*   "closed"  `pl.Closed = closed` throws: draw_polyline passes over it and
\*             the polyline stays open;
\*   "layer"   `e.Layer = layer` throws: the entity stays, on the active layer.
FaultAt(faults, ordinal) == IF ordinal \in DOMAIN faults THEN faults[ordinal] ELSE "ok"

\* `if layer: e.Layer = layer`
LayerOfNew(layer, act) == IF layer # NoLayer THEN layer ELSE act

\* ms.AddCircle(...) of draw_circle
CircleEnt(center, radius, layer, act) ==
    [kind |-> "circle", layer |-> LayerOfNew(layer, act), closed |-> FALSE,
     coords |-> center, r |-> radius]

\* ms.AddLine(...) of draw_line
LineEnt(start, end, layer, act) ==
    [kind |-> "line", layer |-> LayerOfNew(layer, act), closed |-> FALSE,
     coords |-> <<start[1], start[2], end[1], end[2]>>, r |-> 0]

RECURSIVE _to_3d_flat(_)
_to_3d_flat(points_2d) ==
    IF points_2d = <<>> THEN <<>>
    ELSE <<Head(points_2d)[1], Head(points_2d)[2], 0>> \o _to_3d_flat(Tail(points_2d))

\* the point list with the first point always appended when closed
AlwaysClosing(points, closed) ==
    IF closed /\ points # <<>> THEN Append(points, points[1]) ELSE points

\* the point list draw_polyline hands to AddPolyline
ClosedPts(points, closed) ==
    IF closed /\ points # <<>> /\ 4 * _dist(points[1], points[Len(points)]) > POS_TOL
    THEN Append(points, points[1])
    ELSE points

\* the entity draw_polyline creates
draw_polyline(points, layer, closed, act) ==
    [kind |-> "polyline", layer |-> LayerOfNew(layer, act), closed |-> closed,
     coords |-> _to_3d_flat(ClosedPts(points, closed)), r |-> 0]

\* the entity draw_rectangle creates
draw_rectangle(base, width, height, layer, act) ==
    draw_polyline(<< <<base[1], base[2]>>, <<base[1] + width, base[2]>>,
                     <<base[1] + width, base[2] + height>>, <<base[1], base[2] + height>> >>,
                  layer, TRUE, act)

\* One draw call (draw_circle, draw_line, draw_polyline): e is the entity it
\* leaves when nothing fails, layer its `layer` argument; [added, threw].
Sunk(e, layer, act, fault) ==
    CASE fault = "add" -> [added |-> <<>>, threw |-> TRUE]
      [] fault = "closed" /\ e.kind = "polyline" ->
            [added |-> <<[e EXCEPT !.closed = FALSE]>>, threw |-> FALSE]
      [] fault = "layer" /\ layer # NoLayer ->
            [added |-> <<[e EXCEPT !.layer = act]>>, threw |-> TRUE]
      [] OTHER -> [added |-> <<e>>, threw |-> FALSE]

\* A run of draw calls none of which is inside try/except: the entities are
\* added in order until a draw call throws; [space, raised].
RECURSIVE DrawOrRaise(_, _, _, _, _, _)
DrawOrRaise(space, ents, layer, act, ordinal, faults) ==
    IF ents = <<>> THEN [space |-> space, raised |-> FALSE]
    ELSE LET s == Sunk(Head(ents), layer, act, FaultAt(faults, ordinal))
         IN  IF s.threw THEN [space |-> space \o s.added, raised |-> TRUE]
             ELSE DrawOrRaise(space \o s.added, Tail(ents), layer, act, ordinal + 1, faults)

\* the run of guarded draw calls with every attempt counted as inserted
RECURSIVE DrawEachAttempted(_, _, _, _, _, _, _)
DrawEachAttempted(space, ents, layer, act, ordinal, faults, inserted) ==
    IF ents = <<>> THEN [space |-> space, inserted |-> inserted]
    ELSE DrawEachAttempted(space \o Sunk(Head(ents), layer, act, FaultAt(faults, ordinal)).added,
                           Tail(ents), layer, act, ordinal + 1, faults, inserted + 1)

\* A run of draw calls each inside its own try/except-pass, with
\* `inserted += 1` after the call: a draw call that throws is passed over
\* and not counted; [space, inserted].
RECURSIVE DrawEach(_, _, _, _, _, _, _)
DrawEach(space, ents, layer, act, ordinal, faults, inserted) ==
    IF ents = <<>> THEN [space |-> space, inserted |-> inserted]
    ELSE LET s == Sunk(Head(ents), layer, act, FaultAt(faults, ordinal))
         IN  DrawEach(space \o s.added, Tail(ents), layer, act, ordinal + 1, faults,
                      IF s.threw THEN inserted ELSE inserted + 1)

---------------------------------------------------------------------------
(* Selection (acad.py:667-673, 826-866) *)

\* polys.sort(key = area, reverse = True); polys[0]: the first polygon of the
\* greatest area (the sort is stable)
FirstLargest(polys) ==
    polys[CHOOSE i \in DOMAIN polys :
            /\ \A j \in DOMAIN polys : polys[j].area <= polys[i].area
            /\ \A j \in 1..(i - 1) : polys[j].area < polys[i].area]

pick_largest_closed_polyline(space, layer) ==
    LET Pick(polys) == IF polys = <<>> THEN [ok |-> FALSE, reason |-> "no_closed_polylines"]
                       ELSE [ok |-> TRUE, polyline |-> FirstLargest(polys)]
    IN  Pick(find_closed_polylines(space, layer, 3, MIN_SIDE * MIN_SIDE))

\* find_circles(...)["circles"]: the loop over the model space from entity i on
RECURSIVE CirclesFrom(_, _, _, _, _, _)
CirclesFrom(space, i, layer, min_radius, max_count, circles) ==
    IF i > Len(space) THEN circles
    ELSE LET e == space[i]
             cx == e.coords[1]
             cy == e.coords[2]
             more == Append(circles,
                        [handle |-> i, layer |-> e.layer, center |-> <<cx, cy>>, radius |-> e.r,
                         bbox |-> << <<cx - e.r, cy - e.r>>, <<cx + e.r, cy + e.r>> >>])
         IN  IF \/ ~_is_type(e, "circle") \/ LayerSkips(e, layer)
                \/ ~Readable(e) \/ e.r < min_radius
             THEN CirclesFrom(space, i + 1, layer, min_radius, max_count, circles)
             ELSE IF Len(more) >= max_count THEN more
             ELSE CirclesFrom(space, i + 1, layer, min_radius, max_count, more)

find_circles(space, layer, min_radius, max_count) ==
    CirclesFrom(space, 1, layer, min_radius, max_count, <<>>)

\* max_count = 5000 of find_circles and inscribe_squares_in_circles
CIRCLES_MAX == 5000

\* max_count = 2000 of find_squares and inscribe_circles_in_squares
SQUARES_MAX == 2000

\* the first circle let through, whatever its radius
PickFirstCircle(space, layer) ==
    LET Pick(cs) == IF cs = <<>> THEN [ok |-> FALSE, reason |-> "no_circles"]
                    ELSE [ok |-> TRUE, circle |-> cs[1]]
    IN  Pick(find_circles(space, layer, 0, CIRCLES_MAX))

pick_largest_circle(space, layer) ==
    LET first(cs) == CHOOSE i \in DOMAIN cs :
                        /\ \A j \in DOMAIN cs : cs[j].radius <= cs[i].radius
                        /\ \A j \in 1..(i - 1) : cs[j].radius < cs[i].radius
        Pick(cs) == IF cs = <<>> THEN [ok |-> FALSE, reason |-> "no_circles"]
                    ELSE [ok |-> TRUE, circle |-> cs[first(cs)]]
    IN  Pick(find_circles(space, layer, 0, CIRCLES_MAX))

---------------------------------------------------------------------------
(* The construction tools (acad.py:689-950).  Each operator gives the       *)
(* outcome of one call: the model space, layer table and active layer it    *)
(* leaves, whether it raised, and the dict it returned.                     *)

Outcome(space, lays, act, raised, val) ==
    [space |-> space, layers |-> lays, active |-> act, raised |-> raised, val |-> val]

\* `a or b` on layer names
OrElse(a, b) == IF a # NoLayer THEN a ELSE b

\* the circle inscribe_circles_in_squares draws for a detected square
InscribedCircle(sq, layer_name) ==
    CircleEnt(sq.center,
              RDiv(Min2(_dist(sq.vertices[1], sq.vertices[2]),
                        _dist(sq.vertices[2], sq.vertices[3])), 2),
              layer_name, layer_name)

inscribe_circles_in_squares(space, lays, act, layer_name, layer_filter, pos_tol, ang_tol_deg, rel_len_tol, min_side, max_count, allow_rectangles, faults, order) ==
    IF FaultAt(faults, 1) = "add"
    THEN \* ensure_layer throws: nothing catches it
         Outcome(space, lays, act, TRUE, <<>>)
    ELSE LET Done(drawn) ==
                 Outcome(drawn.space, lays \cup {layer_name}, layer_name, FALSE,
                         [ok |-> TRUE, inserted |-> drawn.inserted, layer |-> layer_name])
             Draw(found) ==
                 Done(DrawEach(space, [i \in DOMAIN found |-> InscribedCircle(found[i], layer_name)],
                               layer_name, layer_name, 2, faults, 0))
         IN  Draw(find_squares(space, layer_filter, TRUE, pos_tol, ang_tol_deg, rel_len_tol,
                               min_side, max_count, allow_rectangles, order))

\* half the radius
HalfOf(r) == r \div 2

\* r / math.sqrt(2.0)
OverSqrt2(r) == (ISqrt(2 * r * r) + 1) \div 2

\* a circle drawn for a circle entity
InscribedRing(e, layer_name) ==
    CircleEnt(<<e.coords[1], e.coords[2]>>, OverSqrt2(e.r), layer_name, layer_name)

\* the rectangle inscribe_squares_in_circles draws for a circle entity
InscribedSquare(e, layer_name) ==
    LET half == OverSqrt2(e.r)
    IN  draw_rectangle(<<e.coords[1] - half, e.coords[2] - half>>, half * 2, half * 2,
                       layer_name, layer_name)

\* `for e in ms` of inscribe_squares_in_circles from entity i on; the loop
\* runs over the model space it is adding to
RECURSIVE SquaresLoop(_, _, _, _, _, _, _, _)
SquaresLoop(space, i, layer_name, layer_filter, max_count, ordinal, faults, inserted) ==
    IF i > Len(space) THEN [space |-> space, inserted |-> inserted]
    ELSE LET e == space[i]
             s == Sunk(InscribedSquare(e, layer_name), layer_name, layer_name,
                       FaultAt(faults, ordinal))
         IN  IF ~_is_type(e, "circle") \/ LayerSkips(e, layer_filter) \/ ~Readable(e)
             THEN SquaresLoop(space, i + 1, layer_name, layer_filter, max_count,
                              ordinal, faults, inserted)
             ELSE IF s.threw
             THEN \* draw_rectangle throws: `except Exception: continue`
                  SquaresLoop(space \o s.added, i + 1, layer_name, layer_filter, max_count,
                              ordinal + 1, faults, inserted)
             ELSE IF inserted + 1 >= max_count
             THEN [space |-> space \o s.added, inserted |-> inserted + 1]
             ELSE SquaresLoop(space \o s.added, i + 1, layer_name, layer_filter, max_count,
                              ordinal + 1, faults, inserted + 1)

inscribe_squares_in_circles(space, lays, act, layer_name, layer_filter, max_count, faults) ==
    IF FaultAt(faults, 1) = "add"
    THEN Outcome(space, lays, act, TRUE, <<>>)
    ELSE LET Done(done) ==
                 Outcome(done.space, lays \cup {layer_name}, layer_name, FALSE,
                         [ok |-> TRUE, inserted |-> done.inserted, layer |-> layer_name])
         IN  Done(SquaresLoop(space, 1, layer_name, layer_filter, max_count, 2, faults, 0))

\* bbox_area of the roof tool
bbox_area(b) == Max2(0, (b[2][1] - b[1][1]) * (b[2][2] - b[1][2]))

\* max(sqs, key = bbox_area): the first square of the greatest bounding box
BestSquare(sqs) ==
    sqs[CHOOSE i \in DOMAIN sqs :
          /\ \A j \in DOMAIN sqs : bbox_area(sqs[j].bbox) <= bbox_area(sqs[i].bbox)
          /\ \A j \in 1..(i - 1) : bbox_area(sqs[j].bbox) < bbox_area(sqs[i].bbox)]

\* the roof base with rectangles allowed in the fallback
RoofBaseWithRectangles(space, layer_source, order) ==
    LET Fallback(sqs) == IF sqs = <<>> THEN [ok |-> FALSE, reason |-> "no_squares"]
                         ELSE [ok |-> TRUE, bbox |-> BestSquare(sqs).bbox]
        From(pick) ==
            IF pick.ok THEN [ok |-> TRUE, bbox |-> pick.polyline.bbox]
            ELSE Fallback(find_squares(space, layer_source, TRUE, POS_TOL, ANG_TOL_DEG,
                                       REL_LEN_TOL, MIN_SIDE, SQUARES_MAX, TRUE, order))
    IN  From(pick_largest_closed_polyline(space, layer_source))

\* the bounding box the roof is built over: [ok, bbox] or [ok, reason]
RoofBase(space, layer_source, order) ==
    LET Fallback(sqs) == IF sqs = <<>> THEN [ok |-> FALSE, reason |-> "no_squares"]
                         ELSE [ok |-> TRUE, bbox |-> BestSquare(sqs).bbox]
        From(pick) ==
            IF pick.ok THEN [ok |-> TRUE, bbox |-> pick.polyline.bbox]
            ELSE Fallback(find_squares(space, layer_source, TRUE, POS_TOL, ANG_TOL_DEG,
                                       REL_LEN_TOL, MIN_SIDE, SQUARES_MAX, FALSE, order))
    IN  From(pick_largest_closed_polyline(space, layer_source))

\* the points of the roof over bbox; height_ratio in per cent, overhang in ticks
RoofPts(bbox, height_ratio, overhang) ==
    LET minx == bbox[1][1]
        miny == bbox[1][2]
        maxx == bbox[2][1]
        maxy == bbox[2][2]
        h == maxy - miny
        apex_h == RDiv(h * height_ratio, 100)
        x_left == minx - overhang
        x_right == maxx + overhang
        y_top == maxy
        x_mid == RDiv(minx + maxx, 2)
        apex == <<x_mid, y_top + apex_h>>
    IN  << <<x_left, y_top>>, <<x_right, y_top>>, apex, <<x_left, y_top>> >>

draw_triangle_roof_over_largest_square(space, lays, act, layer_source, layer_result, height_ratio, overhang, faults, order) ==
    LET target == OrElse(layer_result, layer_source)
        Done(drawn) ==
            Outcome(drawn.space, lays, act, drawn.raised,
                    IF drawn.raised THEN <<>> ELSE [ok |-> TRUE, handle |-> Len(space) + 1])
        Over(base) ==
            IF ~base.ok THEN Outcome(space, lays, act, FALSE, [ok |-> FALSE, reason |-> base.reason])
            ELSE \* draw_polyline, outside any try/except
                 Done(DrawOrRaise(space,
                                  <<draw_polyline(RoofPts(base.bbox, height_ratio, overhang),
                                                  target, TRUE, act)>>,
                                  target, act, 1, faults))
    IN  Over(RoofBase(space, layer_source, order))

\* x * p, p in per cent
Pct(x, p) == RDiv(x * p, 100)

\* max(x, _MIN_SIDE)
AtLeastMinSide(x) == RDiv(Max2(4 * x, MIN_SIDE), 4)

\* the primitives of make_snowman_from_circle, in drawing order; the scales
\* are in per cent
SnowmanEnts(base, layer, act, middle_scale, head_scale, gap_ratio, eye_scale, draw_arms, draw_legs, hand_scale, foot_scale) ==
    LET cx == base.center[1]
        cy == base.center[2]
        R == base.radius
        gap == Pct(R, gap_ratio)
        R_mid == Pct(R, middle_scale)
        R_head == Pct(R, head_scale)
        c_base == <<cx, cy>>
        c_mid == <<cx, cy + R + gap + R_mid>>
        c_head == <<cx, c_mid[2] + R_mid + gap + R_head>>
        eye_r == AtLeastMinSide(Pct(R_head, eye_scale))
        eye_dx == Pct(R_head, 30)
        eye_dy == Pct(R_head, 15)
        arm_len == Pct(R_mid, 120)
        up == Pct(R_mid, 30)
        p1l == <<c_mid[1] - Pct(R_mid, 90), c_mid[2] + Pct(up, 20)>>
        p2l == <<p1l[1] - arm_len, p1l[2] + up>>
        p1r == <<c_mid[1] + Pct(R_mid, 90), c_mid[2] + Pct(up, 20)>>
        p2r == <<p1r[1] + arm_len, p1r[2] + up>>
        hand_r == AtLeastMinSide(Pct(R_head, hand_scale))
        leg_len == Pct(R, 70)
        base_y == c_base[2] - R
        l1 == <<c_base[1] - Pct(R, 35), base_y + Pct(R, 20)>>
        l2 == <<l1[1] - Pct(R, 50), l1[2] - leg_len>>
        r1 == <<c_base[1] + Pct(R, 35), base_y + Pct(R, 20)>>
        r2 == <<r1[1] + Pct(R, 50), r1[2] - leg_len>>
        foot_r == AtLeastMinSide(Pct(R, foot_scale))
    IN  << CircleEnt(c_base, R, layer, act),
           CircleEnt(c_mid, R_mid, layer, act),
           CircleEnt(c_head, R_head, layer, act),
           CircleEnt(<<c_head[1] - eye_dx, c_head[2] + eye_dy>>, eye_r, layer, act),
           CircleEnt(<<c_head[1] + eye_dx, c_head[2] + eye_dy>>, eye_r, layer, act) >>
        \o (IF draw_arms
            THEN << LineEnt(p1l, p2l, layer, act), CircleEnt(p2l, hand_r, layer, act),
                    LineEnt(p1r, p2r, layer, act), CircleEnt(p2r, hand_r, layer, act) >>
            ELSE <<>>)
        \o (IF draw_legs
            THEN << LineEnt(l1, l2, layer, act), CircleEnt(l2, foot_r, layer, act),
                    LineEnt(r1, r2, layer, act), CircleEnt(r2, foot_r, layer, act) >>
            ELSE <<>>)

make_snowman_from_circle(space, lays, act, layer_source, layer_result, middle_scale, head_scale, gap_ratio, eye_scale, draw_arms, draw_legs, hand_scale, foot_scale, faults) ==
    LET target == OrElse(layer_result, OrElse(layer_source, "SNOWMAN"))
        Done(pick, drawn) ==
            Outcome(drawn.space, lays \cup {target}, target, drawn.raised,
                    IF drawn.raised THEN <<>> ELSE [ok |-> TRUE, base_circle |-> pick.circle])
        From(pick) ==
            IF ~pick.ok
            THEN Outcome(space, lays \cup {target}, target, FALSE,
                         [ok |-> FALSE, reason |-> pick.reason])
            ELSE Done(pick,
                      DrawOrRaise(space,
                                  SnowmanEnts(pick.circle, OrElse(layer_result, layer_source),
                                              target, middle_scale, head_scale, gap_ratio,
                                              eye_scale, draw_arms, draw_legs, hand_scale,
                                              foot_scale),
                                  OrElse(layer_result, layer_source), target, 2, faults))
    IN  IF FaultAt(faults, 1) = "add"
        THEN \* ensure_layer throws
             Outcome(space, lays, act, TRUE, <<>>)
        ELSE From(pick_largest_circle(space, layer_source))

---------------------------------------------------------------------------
(* Bounds and the drawings the tools are run on *)

\* grid coordinates run over 0..MaxCoord; a grid step is 100 ticks
MaxCoord == 2

\* the caps tried are 0..MaxCount and the tool's default
MaxCount == 2

\* the sink calls of a tool call that may throw are the first MaxSinkCalls
MaxSinkCalls == 2

\* tool calls per behaviour
MaxCalls == 1

Grid == 0..MaxCoord

GridPts == Grid \X Grid

Vecs == ((-MaxCoord)..MaxCoord) \X ((-MaxCoord)..MaxCoord) \ {<<0, 0>>}

Plus(p, u) == <<p[1] + u[1], p[2] + u[2]>>

Dot(u, v) == u[1] * v[1] + u[2] * v[2]

Tick(p) == <<100 * p[1], 100 * p[2]>>

\* the parallelograms p, p+u, p+u+v, p+v on the grid, in every rotation of the
\* vertex list and both windings, in ticks
ParaSeqs ==
    { [i \in 1..4 |-> Tick(q[i])] :
        q \in { << pu[1], Plus(pu[1], pu[2]), Plus(Plus(pu[1], pu[2]), v), Plus(pu[1], v) >> :
                  pu \in {x \in GridPts \X Vecs : Plus(x[1], x[2]) \in GridPts},
                  v \in Vecs } \cap [1..4 -> GridPts] }
    \ {q \in [1..4 -> {Tick(p) : p \in GridPts}] : Cross(q[2], q[4]) + Cross(q[1], q[2]) + Cross(q[4], q[1]) = 0}

IsRectSeq(q) == /\ Dot(Plus(q[2], <<-q[1][1], -q[1][2]>>), Plus(q[4], <<-q[1][1], -q[1][2]>>)) = 0
                /\ Plus(q[2], q[4]) = Plus(q[1], q[3])

IsSquareSeq(q) == /\ IsRectSeq(q)
                  /\ Dot(Plus(q[2], <<-q[1][1], -q[1][2]>>), Plus(q[2], <<-q[1][1], -q[1][2]>>))
                     = Dot(Plus(q[4], <<-q[1][1], -q[1][2]>>), Plus(q[4], <<-q[1][1], -q[1][2]>>))

IsAxisAligned(q) == \A i \in 1..4 : q[i][1] = NextPt(q, i)[1] \/ q[i][2] = NextPt(q, i)[2]

\* one vertex list per parallelogram: counter-clockwise from its least vertex
BaseSeqs == {q \in ParaSeqs : ShoelaceSum(q) > 0 /\ \A i \in 2..4 : PtLess(q[1], q[i])}

\* a polyline entity with the vertices pts: dim numbers per vertex, the first
\* vertex repeated at the end when dup
PolyEnt(pts, dim, dup, layer, closed) ==
    LET all == IF dup THEN Append(pts, pts[1]) ELSE pts
    IN  [kind |-> "polyline", layer |-> layer, closed |-> closed,
         coords |-> IF dim = 3 THEN _to_3d_flat(all)
                    ELSE [i \in 1..(2 * Len(all)) |-> all[(i + 1) \div 2][2 - (i % 2)]],
         r |-> 0]

\* the edges of the vertex list q as line entities: edge perm[i] is the i-th
\* drawn, from its second end when flip[i]
EdgeLines(q, perm, flip, layer) ==
    [i \in 1..Len(q) |->
        LET a == q[perm[i]]
            b == NextPt(q, perm[i])
        IN  IF flip[i] THEN LineEnt(b, a, layer, layer) ELSE LineEnt(a, b, layer, layer)]

Flips == [1..4 -> BOOLEAN]

Identity4 == [i \in 1..4 |-> i]

NoFlip == [i \in 1..4 |-> FALSE]

SceneLayers == {"0", "A"}

\* a single closed polyline: any parallelogram, any first vertex and winding,
\* either coordinate layout, with or without the closing point, on either layer
PolyScenes ==
    { <<PolyEnt(q, dm[1], dm[2], layer, TRUE)>> :
        q \in ParaSeqs, dm \in {2, 3} \X BOOLEAN, layer \in SceneLayers }

\* the four edges of a rectangle as lines, in any direction and any order after
\* the first
LineScenes ==
    { EdgeLines(q, perm, flip, "0") :
        q \in {b \in BaseSeqs : IsRectSeq(b)},
        perm \in {f \in Permutations(1..4) : f[1] = 1}, flip \in Flips }

\* a triangle: the first three vertices of a base parallelogram
TriSeqs == {SubSeq(q, 1, 3) : q \in BaseSeqs}

\* the vertex list q moved to the right of the grid, clear of every shape on it
Aside(q) == [i \in 1..Len(q) |-> Plus(q[i], Tick(<<MaxCoord + 1, 0>>))]

\* two closed polylines that share no point
PairScenes ==
    { <<PolyEnt(a, 3, FALSE, "0", TRUE), PolyEnt(Aside(b), 3, FALSE, "0", TRUE)>> :
        a \in BaseSeqs \cup TriSeqs, b \in BaseSeqs \cup TriSeqs }

\* two rectangles that share no point, each a closed polyline
RectPairScenes ==
    { <<PolyEnt(a, 3, FALSE, "0", TRUE), PolyEnt(Aside(b), 3, FALSE, "0", TRUE)>> :
        a \in {q \in BaseSeqs : IsRectSeq(q)}, b \in {q \in BaseSeqs : IsRectSeq(q)} }

Radii == {100 * k : k \in 1..MaxCoord}

CircleScenes ==
    { <<CircleEnt(Tick(p), r, layer, layer)>> : p \in GridPts, r \in Radii, layer \in SceneLayers }
    \cup
    { <<CircleEnt(Tick(<<0, 0>>), r1, "0", "0"), CircleEnt(Tick(p), r2, layer, layer)>> :
        p \in GridPts, r1 \in Radii, r2 \in Radii, layer \in SceneLayers }

\* a rectangle as four lines and a rectangle as a closed polyline clear of it,
\* either drawn first
MixedScenes ==
    UNION { { EdgeLines(b, Identity4, NoFlip, "0") \o <<PolyEnt(Aside(a), 3, FALSE, "0", TRUE)>>,
              <<PolyEnt(Aside(a), 3, FALSE, "0", TRUE)>> \o EdgeLines(b, Identity4, NoFlip, "0") } :
            a \in {q \in BaseSeqs : IsRectSeq(q)}, b \in {q \in BaseSeqs : IsRectSeq(q)} }

\* a bow-tie over the corners of the rectangle q: two opposite sides and the
\* two diagonals as lines, the sides or the diagonals drawn first
BowTieScenes ==
    UNION { { <<LineEnt(q[1], q[2], "0", "0"), LineEnt(q[3], q[4], "0", "0"),
                LineEnt(q[1], q[3], "0", "0"), LineEnt(q[2], q[4], "0", "0")>>,
              <<LineEnt(q[1], q[3], "0", "0"), LineEnt(q[2], q[4], "0", "0"),
                LineEnt(q[2], q[3], "0", "0"), LineEnt(q[4], q[1], "0", "0")>> } :
            q \in {c \in BaseSeqs : IsRectSeq(c)} }

\* a closed polyline of three to six vertices, the first vertices of a
\* contour of six: as [pts, dim, dup, layer], see PolyEnt
ManyVertexPolys ==
    LET Contours == { << <<0, 0>>, <<200, 0>>, <<200, 100>>, <<200, 200>>, <<0, 200>>, <<0, 100>> >>,
                      << <<0, 0>>, <<200, 100>>, <<0, 200>>, <<100, 100>>, <<200, 0>>, <<100, 200>> >> }
    IN  [pts : {SubSeq(c, 1, n) : c \in Contours, n \in 3..6}, dim : {2, 3}, dup : BOOLEAN,
         layer : SceneLayers]

ManyVertexScenes == { <<PolyEnt(d.pts, d.dim, d.dup, d.layer, TRUE)>> : d \in ManyVertexPolys }

\* the drawings detection is run on
FindScenes ==
    {<<>>} \cup PolyScenes \cup LineScenes \cup RectPairScenes \cup CircleScenes \cup MixedScenes
    \cup BowTieScenes \cup ManyVertexScenes

---------------------------------------------------------------------------
(* The arguments tried *)

FilterLayers == {NoLayer, "A"}

ResultLayers == {NoLayer, "R"}

SquareCounts == (0..MaxCount) \cup {SQUARES_MAX}

CircleCounts == (0..MaxCount) \cup {CIRCLES_MAX}

\* the ways the sink calls of a tool call fail: the first as the first call
\* of the tool can, the others as its draw calls can
Faults(first, others) ==
    {f \in [1..MaxSinkCalls -> first \cup others] :
        f[1] \in first /\ \A k \in 2..MaxSinkCalls : f[k] \in others}

EnsureFaults == {"ok", "add"}

CircleFaults == {"ok", "add", "layer"}

PolylineFaults == {"ok", "add", "closed", "layer"}

\* height_ratio, in per cent (the default is 0.5)
Ratios == {50, 100}

\* overhang, in ticks (the default is 0.0)
Overhangs == {0, 20}

\* no tool call is under way
Idle == [state |-> "idle"]

NoCall == [seq |-> 0, op |-> "none", args |-> <<>>, n0 |-> 0, raised |-> FALSE, val |-> <<>>]

TypeOK == /\ ms \in Seq([kind : {"line", "polyline", "circle"}, layer : STRING,
                         closed : BOOLEAN, coords : Seq(Int), r : Int])
          /\ active \in layers

\* the drawing as it was before the last tool call
Before == SubSeq(ms, 1, ret.n0)

\* what the last tool call added
Emitted == SubSeq(ms, ret.n0 + 1, Len(ms))

\* Executor() as __init__ leaves it: no stop asked for and no replan done; no
\* run under way and no watchdog started.  (self.history, which run appends
\* every step to and nothing reads, is left out.)
Constructed(replan_mode, max_replans) ==
    /\ self = [_stop |-> FALSE, replan_mode |-> replan_mode, max_replans |-> max_replans,
               _replans_done |-> 0]
    /\ frame = [at |-> "idle", runs |-> 0, remaining |-> <<>>, step_idx |-> 0, steps_done |-> 0,
                attempt |-> 0, tried |-> <<>>, ok |-> FALSE, result |-> [error |-> "none"], asked |-> 0,
                replanned |-> 0, unanswered |-> FALSE, value |-> FALSE, line |-> 0]
    /\ threads = {}

---------------------------------------------------------------------------
(* Actions: one per tool *)

Returned(op, args, out) ==
    /\ ms' = out.space
    /\ layers' = out.layers
    /\ active' = out.active
    /\ ret' = [seq |-> ret.seq + 1, op |-> op, args |-> args, n0 |-> Len(ms),
               raised |-> out.raised, val |-> out.val]
    /\ pc' = pc
    /\ UNCHANGED executor

FindSquares ==
    /\ ret.seq < MaxCalls
    /\ \E layer \in FilterLayers, include_lines \in BOOLEAN, max_count \in SquareCounts,
          allow_rectangles \in BOOLEAN :
         \E order \in Orderings(LoopsOf(ms, layer, POS_TOL)) :
            Returned("find_squares",
                     [layer |-> layer, include_lines |-> include_lines, pos_tol |-> POS_TOL,
                      ang_tol_deg |-> ANG_TOL_DEG, rel_len_tol |-> REL_LEN_TOL,
                      min_side |-> MIN_SIDE, max_count |-> max_count,
                      allow_rectangles |-> allow_rectangles],
                     Outcome(ms, layers, active, FALSE,
                             [ok |-> TRUE,
                              squares |-> find_squares(ms, layer, include_lines, POS_TOL,
                                                       ANG_TOL_DEG, REL_LEN_TOL, MIN_SIDE,
                                                       max_count, allow_rectangles, order)]))

FindClosedPolylines ==
    /\ ret.seq < MaxCalls
    /\ \E layer \in FilterLayers, min_vertices \in {3, 4} :
         Returned("find_closed_polylines",
                  [layer |-> layer, min_vertices |-> min_vertices, min_area |-> 0],
                  Outcome(ms, layers, active, FALSE,
                          [ok |-> TRUE,
                           polylines |-> find_closed_polylines(ms, layer, min_vertices, 0)]))

FindCircles ==
    /\ ret.seq < MaxCalls
    /\ \E layer \in FilterLayers, min_radius \in {0} \cup Radii, max_count \in CircleCounts :
         Returned("find_circles",
                  [layer |-> layer, min_radius |-> min_radius, max_count |-> max_count],
                  Outcome(ms, layers, active, FALSE,
                          [ok |-> TRUE,
                           circles |-> find_circles(ms, layer, min_radius, max_count)]))

InscribeCircles ==
    /\ ret.seq < MaxCalls
    /\ \E layer_filter \in FilterLayers, max_count \in SquareCounts,
          allow_rectangles \in BOOLEAN, faults \in Faults(EnsureFaults, CircleFaults) :
         \E order \in Orderings(LoopsOf(ms, layer_filter, POS_TOL)) :
            Returned("inscribe_circles_in_squares",
                     [layer_name |-> "CIRCLES_YELLOW", layer_filter |-> layer_filter,
                      max_count |-> max_count, allow_rectangles |-> allow_rectangles,
                      faults |-> faults],
                     inscribe_circles_in_squares(ms, layers, active, "CIRCLES_YELLOW",
                         layer_filter, POS_TOL, ANG_TOL_DEG, REL_LEN_TOL, MIN_SIDE, max_count,
                         allow_rectangles, faults, order))

InscribeSquares ==
    /\ ret.seq < MaxCalls
    /\ \E layer_filter \in FilterLayers, max_count \in CircleCounts,
          faults \in Faults(EnsureFaults, PolylineFaults) :
         Returned("inscribe_squares_in_circles",
                  [layer_name |-> "CIRCLES_YELLOW", layer_filter |-> layer_filter,
                   max_count |-> max_count, faults |-> faults],
                  inscribe_squares_in_circles(ms, layers, active, "CIRCLES_YELLOW",
                                              layer_filter, max_count, faults))

Roof ==
    /\ ret.seq < MaxCalls
    /\ \E layer_source \in FilterLayers, layer_result \in ResultLayers,
          height_ratio \in Ratios, overhang \in Overhangs,
          faults \in [1..1 -> PolylineFaults] :
         \E order \in Orderings(LoopsOf(ms, layer_source, POS_TOL)) :
            Returned("draw_triangle_roof_over_largest_square",
                     [layer_source |-> layer_source, layer_result |-> layer_result,
                      height_ratio |-> height_ratio, overhang |-> overhang, faults |-> faults],
                     draw_triangle_roof_over_largest_square(ms, layers, active, layer_source,
                         layer_result, height_ratio, overhang, faults, order))

Snowman ==
    /\ ret.seq < MaxCalls
    /\ \E layer_source \in FilterLayers, layer_result \in ResultLayers,
          draw_arms \in BOOLEAN, draw_legs \in BOOLEAN,
          faults \in Faults(EnsureFaults, CircleFaults) :
         Returned("make_snowman_from_circle",
                  [layer_source |-> layer_source, layer_result |-> layer_result,
                   draw_arms |-> draw_arms, draw_legs |-> draw_legs, faults |-> faults],
                  make_snowman_from_circle(ms, layers, active, layer_source, layer_result,
                                           70, 50, 10, 12, draw_arms, draw_legs, 12, 12, faults))

---------------------------------------------------------------------------
(* Specifications *)

InitOn(scenes) ==
    /\ ms \in scenes
    /\ layers = {"0", "A"}
    /\ active = "0"
    /\ ret = NoCall
    /\ pc = Idle
    /\ Constructed("on_error", 3)

\* detection on a drawing
InitFind == InitOn(FindScenes)

NextFind == FindSquares \/ FindCircles \/ FindClosedPolylines

SpecFind == InitFind /\ [][NextFind]_vars


\* the roof tool on a drawing
SinglePolyScenes ==
    { <<PolyEnt(q, 3, FALSE, layer, TRUE)>> : q \in BaseSeqs \cup TriSeqs, layer \in SceneLayers }

RectLineScenes ==
    { EdgeLines(q, Identity4, flip, "0") : q \in {b \in BaseSeqs : IsRectSeq(b)}, flip \in Flips }

RoofScenes == {<<>>} \cup SinglePolyScenes \cup PairScenes \cup RectLineScenes

InitRoof == InitOn(RoofScenes)

NextRoof == Roof

SpecRoof == InitRoof /\ [][NextRoof]_vars

\* every tool on a drawing
Scenes == {<<>>} \cup SinglePolyScenes \cup RectPairScenes \cup RectLineScenes \cup CircleScenes

Init == InitOn(Scenes)

Next == \/ FindSquares
        \/ FindCircles
        \/ InscribeCircles
        \/ InscribeSquares
        \/ Roof
        \/ Snowman

Spec == Init /\ [][Next]_vars


---------------------------------------------------------------------------
(* Detection with the caller's tolerances *)

\* pos_tol, in quarter ticks: the default and two ticks
PosTols == {POS_TOL, 8}

\* ang_tol_deg, in tenths of a degree: the default and five degrees
AngTols == {ANG_TOL_DEG, 50}

\* rel_len_tol, in per cent: the default and a fifth
RelTols == {REL_LEN_TOL, 20}

\* min_side, in quarter ticks: the default and a grid step and a half
MinSides == {MIN_SIDE, 600}

\* four distinct grid points from the origin, in ticks: any quadrilateral,
\* crossed or with three points in line
QuadSeqs ==
    { [i \in 1..4 |-> Tick(q[i])] :
        q \in {f \in [1..4 -> GridPts] :
                 f[1] = <<0, 0>> /\ \A i, j \in 1..4 : i # j => f[i] # f[j]} }

\* the displacements of a line end, in ticks
Nudges == (0..2) \X (0..2)

\* the edges of q as lines, the end of the first moved by d1 and the start of
\* the second by d2
NudgedLines(q, d1, d2) ==
    [EdgeLines(q, Identity4, NoFlip, "0") EXCEPT
        ![1] = LineEnt(q[1], Plus(q[2], d1), "0", "0"),
        ![2] = LineEnt(Plus(q[2], d2), q[3], "0", "0")]

\* rectangles of a few ticks
SmallRects ==
    { <<<<0, 0>>, <<w, 0>>, <<w, h>>, <<0, h>>>> : w \in {2, 4}, h \in {2, 4} }

TolScenes ==
    { <<PolyEnt(q, 3, FALSE, "0", TRUE)>> : q \in QuadSeqs \cup SmallRects }
    \cup { EdgeLines(q, Identity4, NoFlip, "0") : q \in QuadSeqs }
    \cup { NudgedLines(q, d1, d2) :
             q \in {b \in BaseSeqs : IsSquareSeq(b) /\ IsAxisAligned(b) /\ b[1] = <<0, 0>>},
             d1 \in Nudges, d2 \in Nudges }

\* find_squares called with tolerances of the caller's
FindSquaresTol ==
    /\ ret.seq < MaxCalls
    /\ \E pos_tol \in PosTols, ang_tol_deg \in AngTols, rel_len_tol \in RelTols,
          min_side \in MinSides, allow_rectangles \in BOOLEAN :
         \E order \in Orderings(LoopsOf(ms, NoLayer, pos_tol)) :
            Returned("find_squares",
                     [layer |-> NoLayer, include_lines |-> TRUE, pos_tol |-> pos_tol,
                      ang_tol_deg |-> ang_tol_deg, rel_len_tol |-> rel_len_tol,
                      min_side |-> min_side, max_count |-> SQUARES_MAX,
                      allow_rectangles |-> allow_rectangles],
                     Outcome(ms, layers, active, FALSE,
                             [ok |-> TRUE,
                              squares |-> find_squares(ms, NoLayer, TRUE, pos_tol, ang_tol_deg,
                                                       rel_len_tol, min_side, SQUARES_MAX,
                                                       allow_rectangles, order)]))

InitTol == InitOn(TolScenes)

NextTol == FindSquaresTol

SpecTol == InitTol /\ [][NextTol]_vars


---------------------------------------------------------------------------
(* Drawings with a primitive that cannot be read *)

\* a line whose StartPoint and EndPoint raise, a circle whose Center raises
Unreadables ==
    {[kind |-> k, layer |-> layer, closed |-> FALSE, coords |-> <<>>, r |-> 0] :
        k \in {"line", "circle"}, layer \in SceneLayers}

\* the drawing s with the entity e put in as the k-th
InsertAt(s, k, e) == SubSeq(s, 1, k - 1) \o <<e>> \o SubSeq(s, k, Len(s))

\* a rectangle as four lines, one or two circles, or both, with one entity
\* that cannot be read anywhere among them
UnreadScenes ==
    LET Rects == {EdgeLines(q, Identity4, NoFlip, "0") : q \in {b \in BaseSeqs : IsRectSeq(b)}}
        Rings == {c \in CircleScenes : c[Len(c)].coords = Tick(<<MaxCoord, MaxCoord>>)}
        Whole == Rects \cup Rings \cup {l \o c : l \in Rects, c \in {d \in Rings : Len(d) = 1}}
    IN  UNION { {InsertAt(s, k, u) : k \in 1..(Len(s) + 1), u \in Unreadables} : s \in Whole }

InitUnread == InitOn(UnreadScenes)

NextUnread == FindSquares \/ FindCircles \/ InscribeSquares

SpecUnread == InitUnread /\ [][NextUnread]_vars

---------------------------------------------------------------------------
(* inscribe_squares_in_circles step by step (acad.py:749-777)              *)
(* `for e in ms` runs over the model space the loop is adding to.  Whether *)
(* the iteration comes to the entities added during it is the sink's       *)
(* affair: it does when pc.live and stops at the last entity present at    *)
(* the start when not.                                                     *)

\* the last position the iteration visits
LoopEndsAt == IF pc.live THEN Len(ms) ELSE pc.n0

\* the call starts: ensure_layer and set_current_layer, then the loop at the
\* first entity
LoopBegin ==
    /\ ret.seq < MaxCalls
    /\ pc.state = "idle"
    /\ \E layer_filter \in FilterLayers, max_count \in CircleCounts,
          faults \in Faults(EnsureFaults, PolylineFaults), live \in BOOLEAN :
         LET args == [layer_name |-> "CIRCLES_YELLOW", layer_filter |-> layer_filter,
                      max_count |-> max_count, faults |-> faults]
         IN  IF FaultAt(faults, 1) = "add"
             THEN \* ensure_layer throws
                  Returned("inscribe_squares_in_circles", args,
                           Outcome(ms, layers, active, TRUE, <<>>))
             ELSE /\ pc' = [state |-> "running", args |-> args, live |-> live, n0 |-> Len(ms),
                            i |-> 1, ordinal |-> 2, inserted |-> 0]
                  /\ layers' = layers \cup {args.layer_name}
                  /\ active' = args.layer_name
                  /\ UNCHANGED <<ms, ret, executor>>

\* a point of the grid away from the origin
FarPt == <<MaxCoord, MaxCoord>>

\* the circles the iteration can come to
LoopCircles ==
    {CircleEnt(Tick(p), r, layer, layer) :
        p \in {<<0, 0>>, FarPt}, r \in 0..(100 * MaxCoord), layer \in SceneLayers \cup {"CIRCLES_YELLOW"}}

\* the rectangle the loop body draws for each of them
SquareOf == [e \in LoopCircles |-> InscribedSquare(e, "CIRCLES_YELLOW")]

\* one pass of the loop body, for the entity at pc.i
LoopStep ==
    /\ pc.state = "running"
    /\ pc.i <= LoopEndsAt
    /\ LET e == ms[pc.i]
           s == Sunk(SquareOf[e], pc.args.layer_name, pc.args.layer_name,
                     FaultAt(pc.args.faults, pc.ordinal))
       IN  IF ~_is_type(e, "circle") \/ LayerSkips(e, pc.args.layer_filter) \/ ~Readable(e)
           THEN \* continue
                /\ pc' = [pc EXCEPT !.i = @ + 1]
                /\ ms' = ms
           ELSE IF s.threw
           THEN \* draw_rectangle throws: `except Exception: continue`
                /\ pc' = [pc EXCEPT !.i = @ + 1, !.ordinal = @ + 1]
                /\ ms' = ms \o s.added
           ELSE IF pc.inserted + 1 >= pc.args.max_count
           THEN \* break
                /\ pc' = [pc EXCEPT !.state = "broke", !.ordinal = @ + 1, !.inserted = @ + 1]
                /\ ms' = ms \o s.added
           ELSE /\ pc' = [pc EXCEPT !.i = @ + 1, !.ordinal = @ + 1, !.inserted = @ + 1]
                /\ ms' = ms \o s.added
    /\ UNCHANGED <<layers, active, ret, executor>>

\* the loop is over: the call returns
LoopReturn ==
    /\ \/ pc.state = "broke"
       \/ pc.state = "running" /\ pc.i > LoopEndsAt
    /\ pc' = [pc EXCEPT !.state = "done"]
    /\ ret' = [seq |-> ret.seq + 1, op |-> "inscribe_squares_in_circles", args |-> pc.args,
               n0 |-> pc.n0, raised |-> FALSE,
               val |-> [ok |-> TRUE, inserted |-> pc.inserted, layer |-> pc.args.layer_name]]
    /\ UNCHANGED <<ms, layers, active, executor>>

\* circles about the origin and about FarPt, alone, in pairs, and after a
\* closed polyline
LoopScenes ==
    LET Near == {s \in CircleScenes : s[Len(s)].coords \in {Tick(<<0, 0>>), Tick(FarPt)}}
    IN  Near \cup {<<PolyEnt(<<<<0, 0>>, <<1, 0>>, <<1, 1>>, <<0, 1>>>>, 3, FALSE, "0", TRUE)>> \o c : c \in Near}

InitLoop == InitOn(LoopScenes)

NextLoop == LoopBegin \/ LoopStep \/ LoopReturn

\* the interpreter runs a call that has started to its end
SpecLoop == InitLoop /\ [][NextLoop]_vars /\ WF_vars(LoopStep) /\ WF_vars(LoopReturn)

---------------------------------------------------------------------------
(* The executor (executor.py, llm.py:134-162, utils/watchdog.py:20-34)     *)
(* A step is the name of its tool; its arguments play no part in the loop. *)
(* Executor.run is taken statement by statement, because stop() may be     *)
(* called from another thread between any two of them.  frame holds        *)
(*   at         : "idle", "head" (the test of the while loop), "try" (in   *)
(*                _run_step, before an attempt), "judge" (_run_step has    *)
(*                returned), "replan", "returned" or "raised"              *)
(*   runs       : the calls of run so far                                  *)
(*   remaining, step_idx : the locals of run                               *)
(*   steps_done : len(steps_done)                                          *)
(*   attempt    : the attempts made at the step under way                  *)
(*   tried      : what each invocation of its tool did                     *)
(*   ok, result : what _run_step returned                                  *)
(*   asked      : the calls of llm.replan during this run                  *)
(*   replanned  : the times remaining was replaced during this run         *)
(*   unanswered : every model call of the last llm.replan failed           *)
(*   value, line: what run returned, and at which line of executor.py      *)
(***************************************************************************)

\* the retries of a step (config.py:10)
STEP_RETRIES == 2

\* the plan is at most MaxPlan steps long, a replanned list at most MaxNew
MaxPlan == 2
MaxNew == 2

\* run is called at most MaxRuns times on the executor
MaxRuns == 2

\* max_replans is at most MaxReplans
MaxReplans == 2

\* the registry of tools: the names a step can be run under
TOOLS == {"acad.draw_circle", "acad.get_current_doc_info", "acad.get_extents_of_model"}

\* a step of a replanned list that is not a dict (the replanner's JSON is
\* taken as it comes)
NotADict == "[not a dict]"

\* the steps of a plan: of a tool of the registry, or of a name it lacks
PlanSteps == {"acad.draw_circle", "acad.fly"}

\* what a call of a tool does: it raises, or returns a dict
ToolOutcomes ==
    {[raised |-> TRUE, val |-> [error |-> "e"]],
     [raised |-> FALSE, val |-> [ok |-> FALSE, reason |-> "r"]],
     [raised |-> FALSE, val |-> [ok |-> TRUE]],
     [raised |-> FALSE, val |-> [ok |-> TRUE, reason |-> ""]],
     [raised |-> FALSE, val |-> [ok |-> TRUE, reason |-> "r"]]}

\* isinstance(res, dict) and res.get("ok"): _run_step's line 147
Succeeded(res) == "ok" \in DOMAIN res /\ res.ok

_is_result_clear(result) ==
    /\ Succeeded(result)
    /\ ~("reason" \in DOMAIN result /\ result.reason # "")

\* what one model of the replanner does: the call fails (it raises, or the
\* answer is not the JSON of an object), or the answer's "steps" is a list,
\* or it is something else
ModelAnswers ==
    {[kind |-> "raise", steps |-> <<>>], [kind |-> "other", steps |-> <<>>]}
    \cup {[kind |-> "steps", steps |-> st] :
             st \in UNION {[1..n -> PlanSteps \cup {NotADict}] : n \in 0..MaxNew}}

\* llm.replan: the answer of the first model whose call does not fail,
\* and remaining_steps when every call fails
replan(remaining_steps, answers) ==
    LET heard == {i \in DOMAIN answers : answers[i].kind # "raise"}
        first == CHOOSE i \in heard : \A j \in heard : i <= j
    IN  IF heard = {}
        THEN [list |-> TRUE, steps |-> remaining_steps]
        ELSE [list |-> answers[first].kind = "steps", steps |-> answers[first].steps]

\* run returns value at the given line
Return(value, line) ==
    frame' = [frame EXCEPT !.at = "returned", !.value = value, !.line = line]

\* run(plan): lines 56-67
Run ==
    /\ frame.at \in {"idle", "returned", "raised"}
    /\ frame.runs < MaxRuns
    /\ \E plan \in UNION {[1..n -> PlanSteps] : n \in 0..MaxPlan} :
         frame' = [at |-> "head", runs |-> frame.runs + 1, remaining |-> plan, step_idx |-> 0,
                   steps_done |-> 0, attempt |-> 0, tried |-> <<>>, ok |-> FALSE,
                   result |-> [error |-> "none"], asked |-> 0, replanned |-> 0,
                   unanswered |-> FALSE, value |-> FALSE, line |-> 0]
    /\ self' = [self EXCEPT !._replans_done = 0]
    /\ threads' = threads \cup {frame.runs + 1}
    /\ UNCHANGED <<ms, layers, active, ret, pc>>

\* stop(), from any thread
Stop ==
    /\ ~self._stop
    /\ self' = [self EXCEPT !._stop = TRUE]
    /\ UNCHANGED <<ms, layers, active, ret, pc, frame, threads>>

\* the loop of a watchdog thread finds the event set and ends
WatchdogEnds ==
    /\ self._stop
    /\ \E t \in threads : threads' = threads \ {t}
    /\ UNCHANGED <<ms, layers, active, ret, pc, self, frame>>

\* a test that never sees the flag
is_never_set == FALSE

\* self._stop.is_set(), line 69
is_set == self._stop

\* the test of the while loop and the start of the step: lines 68-75 and,
\* in _run_step, 137-142
LoopTest ==
    /\ frame.at = "head"
    /\ IF frame.step_idx >= Len(frame.remaining)
       THEN Return(TRUE, 106)
       ELSE IF is_set
       THEN Return(FALSE, 71)
       ELSE IF frame.remaining[frame.step_idx + 1] = NotADict
       THEN \* step.get: AttributeError
            frame' = [frame EXCEPT !.at = "raised"]
       ELSE IF frame.remaining[frame.step_idx + 1] \notin TOOLS
       THEN frame' = [frame EXCEPT !.at = "judge", !.attempt = 0, !.tried = <<>>, !.ok = FALSE,
                                   !.result = [error |-> "unknown tool"]]
       ELSE frame' = [frame EXCEPT !.at = "try", !.attempt = 0, !.tried = <<>>]
    /\ UNCHANGED <<ms, layers, active, ret, pc, self, threads>>

\* a loop of one attempt more
AttemptsAndOne == 1..(STEP_RETRIES + 1)

\* range(1, STEP_RETRIES + 1)
Attempts == 1..STEP_RETRIES

\* one attempt of _run_step: lines 143-156
Attempt ==
    /\ frame.at = "try"
    /\ \E res \in ToolOutcomes :
         IF ~res.raised /\ Succeeded(res.val)
         THEN frame' = [frame EXCEPT !.at = "judge", !.attempt = @ + 1, !.tried = Append(@, res),
                                     !.ok = TRUE, !.result = res.val]
         ELSE IF frame.attempt + 2 \notin Attempts
         THEN frame' = [frame EXCEPT !.at = "judge", !.attempt = @ + 1, !.tried = Append(@, res),
                                     !.ok = FALSE, !.result = [error |-> "e"]]
         ELSE frame' = [frame EXCEPT !.attempt = @ + 1, !.tried = Append(@, res)]
    /\ UNCHANGED <<ms, layers, active, ret, pc, self, threads>>

\* a replan whatever the counter says
MayReplanOnError == self.replan_mode = "on_error"

\* a replan whatever the mode says
MayReplanInBudget == self._replans_done < self.max_replans

\* the test of line 89
MayReplan == self.replan_mode = "on_error" /\ self._replans_done < self.max_replans

\* after _run_step: lines 84-89, 100-103
Judge ==
    /\ frame.at = "judge"
    /\ IF frame.ok /\ _is_result_clear(frame.result)
       THEN frame' = [frame EXCEPT !.at = "head", !.step_idx = @ + 1, !.steps_done = @ + 1]
       ELSE IF MayReplan
       THEN frame' = [frame EXCEPT !.at = "replan", !.steps_done = @ + 1]
       ELSE frame' = [frame EXCEPT !.at = "returned", !.steps_done = @ + 1, !.value = FALSE,
                                   !.line = 101]
    /\ UNCHANGED <<ms, layers, active, ret, pc, self, threads>>

\* _do_replan and what run does with its answer: lines 90-101, 158-192
DoReplan ==
    /\ frame.at = "replan"
    /\ \E context_raises \in BOOLEAN, answers \in [1..2 -> ModelAnswers] :
         LET rest == SubSeq(frame.remaining, frame.step_idx + 2, Len(frame.remaining))
             unanswered == \A i \in DOMAIN answers : answers[i].kind = "raise"
             Continue(new_remaining) ==
                 IF ~context_raises /\ new_remaining.list
                 THEN /\ self' = [self EXCEPT !._replans_done = @ + 1]
                      /\ frame' = [frame EXCEPT !.at = "head", !.asked = @ + 1, !.replanned = @ + 1,
                                      !.unanswered = unanswered,
                                      !.remaining = SubSeq(@, 1, frame.step_idx + 1) \o new_remaining.steps,
                                      !.step_idx = @ + 1]
                 ELSE /\ self' = self
                      /\ frame' = [frame EXCEPT !.at = "returned", !.value = FALSE, !.line = 101,
                                      !.asked = IF context_raises THEN @ ELSE @ + 1,
                                      !.unanswered = IF context_raises THEN @ ELSE unanswered]
         IN  Continue(replan(rest, answers))
    /\ UNCHANGED <<ms, layers, active, ret, pc, threads>>

InitExec ==
    /\ ms = <<>>
    /\ layers = {"0", "A"}
    /\ active = "0"
    /\ ret = NoCall
    /\ pc = Idle
    /\ \E replan_mode \in {"never", "on_error"}, max_replans \in 0..MaxReplans :
         Constructed(replan_mode, max_replans)

NextExec == Run \/ Stop \/ WatchdogEnds \/ LoopTest \/ Attempt \/ Judge \/ DoReplan

\* the interpreter runs the thread of run on: a tool call and a call of the
\* replanner return
SpecExec == InitExec /\ [][NextExec]_vars /\ WF_vars(LoopTest) /\ WF_vars(Attempt) /\ WF_vars(Judge) /\ WF_vars(DoReplan)

---------------------------------------------------------------------------
(* Claims *)

\* the axis-aligned squares of the grid, as vertex lists from any corner in
\* either winding
AxisSquares == {q \in ParaSeqs : IsSquareSeq(q) /\ IsAxisAligned(q)}

\* the layer filter lets an entity of the layer through
Admits(filter, layer) == filter = NoLayer \/ filter = layer

\* the midpoint of the diagonal q[1] q[3]
DiagonalMid(q) == <<(q[1][1] + q[3][1]) \div 2, (q[1][2] + q[3][2]) \div 2>>

\* the drawings of one closed polygon that is an axis-aligned square, each
\* with the square it draws
SquareDrawn ==
    LET drawings == { <<PolyEnt(q, dm[1], dm[2], layer, TRUE)>> :
                        q \in AxisSquares, dm \in {2, 3} \X BOOLEAN, layer \in SceneLayers }
    IN  [d \in drawings |->
            CHOOSE q \in AxisSquares :
                \E dm \in {2, 3} \X BOOLEAN : d = <<PolyEnt(q, dm[1], dm[2], d[1].layer, TRUE)>>]

\* C1: when the drawing is one closed four-vertex polygon that is an
\* axis-aligned square, whichever corner its vertex list starts from and
\* whichever way it winds, find_squares (with a layer filter that lets the
\* polygon through) returns exactly one shape, its source is "polyline" and
\* its center is the geometric center of the square.
C1_SquarePolygonIsOneShape ==
    ( /\ ret.op = "find_squares"
      /\ Before \in DOMAIN SquareDrawn
      /\ Admits(ret.args.layer, Before[1].layer) )
    => LET q == SquareDrawn[Before]
       IN  /\ Len(ret.val.squares) = 1
           /\ ret.val.squares[1].source = "polyline"
           /\ ret.val.squares[1].center = DiagonalMid(q)
           /\ Range(ret.val.squares[1].vertices) = Range(q)

\* a clockwise square listed from a corner other than its least one, with the
\* closing point repeated, has been searched and reported
C1_Witness ==
    /\ ret.op = "find_squares"
    /\ Before \in DOMAIN SquareDrawn
    /\ LET q == SquareDrawn[Before]
       IN  /\ ShoelaceSum(q) < 0
           /\ \E i \in 2..4 : PtLess(q[i], q[1])
           /\ Before = <<PolyEnt(q, 2, TRUE, "A", TRUE)>>
    /\ ret.args.layer = "A"
    /\ Len(ret.val.squares) = 1
    /\ ret.val.squares[1].source = "polyline"

\* the shape find_squares reports for each axis-aligned square drawn as one
\* closed polygon
PolygonShape ==
    [q \in AxisSquares \cap BaseSeqs |->
        find_squares(<<PolyEnt(q, 3, FALSE, "0", TRUE)>>, NoLayer, TRUE, POS_TOL, ANG_TOL_DEG,
                     REL_LEN_TOL, MIN_SIDE, SQUARES_MAX, FALSE, <<>>)[1]]

\* the drawings of the four edges of an axis-aligned square as lines, each
\* with the square it draws
SquareFromLines ==
    LET drawings == { EdgeLines(q, perm, flip, "0") :
                        q \in AxisSquares \cap BaseSeqs, perm \in Permutations(1..4),
                        flip \in Flips }
    IN  [d \in drawings |->
            CHOOSE q \in AxisSquares \cap BaseSeqs :
                {<<d[i].coords[1], d[i].coords[2]>> : i \in 1..4}
                \cup {<<d[i].coords[3], d[i].coords[4]>> : i \in 1..4} = Range(q)]

\* C2: when the drawing is the four edges of an axis-aligned square drawn as
\* separate line segments, in any order and any direction, find_squares with
\* include_lines reports a shape, and every shape it reports has source
\* "lines" and no handles, with the vertex set, center, side and bounding box
\* of the shape reported for the same square drawn as one closed polygon.
C2_LineSquareSameShape ==
    ( /\ ret.op = "find_squares"
      /\ ret.args.include_lines
      /\ Admits(ret.args.layer, "0")
      /\ Before \in DOMAIN SquareFromLines )
    => LET poly == PolygonShape[SquareFromLines[Before]]
       IN  /\ Len(ret.val.squares) >= 1
           /\ poly.source = "polyline"
           /\ Range(poly.vertices) = Range(SquareFromLines[Before])
           /\ \A i \in DOMAIN ret.val.squares :
                LET sq == ret.val.squares[i]
                IN  /\ sq.source = "lines"
                    /\ sq.handles = <<>>
                    /\ Range(sq.vertices) = Range(poly.vertices)
                    /\ sq.center = poly.center
                    /\ sq.side = poly.side
                    /\ sq.bbox = poly.bbox

\* the edges of a square, drawn out of order with some of them reversed, have
\* been searched and reported as a shape from lines
C2_Witness ==
    /\ ret.op = "find_squares"
    /\ Before \in DOMAIN SquareFromLines
    /\ \E perm \in Permutations(1..4) \ {Identity4}, flip \in Flips \ {NoFlip} :
          Before = EdgeLines(SquareFromLines[Before], perm, flip, "0")
    /\ Len(ret.val.squares) >= 1
    /\ ret.val.squares[1].source = "lines"

\* no sink call of the last tool call failed
SinkWorked == \A k \in DOMAIN ret.args.faults : ret.args.faults[k] = "ok"

\* the first sink call of the last tool call threw
FirstThrew == FaultAt(ret.args.faults, 1) = "add"

ConstructionOps == {"inscribe_circles_in_squares", "inscribe_squares_in_circles",
                    "draw_triangle_roof_over_largest_square", "make_snowman_from_circle"}

\* C3: a cap max_count = k bounds the result by k for every k >= 0:
\* find_squares returns at most k shapes, find_circles at most k circles, and
\* inscribe_squares_in_circles emits at most k rectangles.
C3_CapBoundsResult ==
    /\ ret.op = "find_squares" => Len(ret.val.squares) <= ret.args.max_count
    /\ ret.op = "find_circles" => Len(ret.val.circles) <= ret.args.max_count
    /\ ret.op = "inscribe_squares_in_circles" => Len(Emitted) <= ret.args.max_count

\* the drawings of the catalogue that hold only squares sharing no point, each
\* with the vertex lists of its squares
SquaresDrawn ==
    LET Squares == {q \in BaseSeqs : IsSquareSeq(q)}
        polys == { <<PolyEnt(q, 3, FALSE, layer, TRUE)>> : q \in Squares, layer \in SceneLayers }
        pairs == { <<PolyEnt(a, 3, FALSE, "0", TRUE), PolyEnt(Aside(b), 3, FALSE, "0", TRUE)>> :
                     a \in Squares, b \in Squares }
        lines == { EdgeLines(q, Identity4, flip, "0") : q \in Squares, flip \in Flips }
    IN  [d \in polys \cup pairs \cup lines |->
            IF d \in lines
            THEN {CHOOSE q \in Squares : \E flip \in Flips : d = EdgeLines(q, Identity4, flip, "0")}
            ELSE {[j \in 1..4 |-> <<d[i].coords[3 * j - 2], d[i].coords[3 * j - 1]>>] :
                    i \in DOMAIN d}]

\* C4: over a drawing of N squares that share no point,
\* inscribe_circles_in_squares (default cap, working sink) emits exactly N
\* circles, one per square, each centered at the square's centroid with half
\* the square's side as radius.
C4_OneCirclePerSquare ==
    ( /\ ret.op = "inscribe_circles_in_squares"
      /\ SinkWorked
      /\ ret.args.max_count = SQUARES_MAX
      /\ Before \in DOMAIN SquaresDrawn
      /\ \A i \in DOMAIN Before : Admits(ret.args.layer_filter, Before[i].layer) )
    => /\ ~ret.raised
       /\ Len(Emitted) = Cardinality(SquaresDrawn[Before])
       /\ \A i \in DOMAIN Emitted : Emitted[i].kind = "circle"
       /\ {<<Emitted[i].coords, Emitted[i].r>> : i \in DOMAIN Emitted}
          = {<<DiagonalMid(q), RDiv(_dist(q[1], q[2]), 2)>> : q \in SquaresDrawn[Before]}

\* C5: no construction tool raises when a sink call throws.
C5_SinkFailureIsData == ret.op \in ConstructionOps => ~ret.raised

\* the layer filter of the last call
FilterOf(args) ==
    IF "layer_filter" \in DOMAIN args THEN args.layer_filter ELSE args.layer_source

\* the last call had nothing to work on: no polyline or line passed the layer
\* filter of a tool that works on squares, no circle that of a tool that works
\* on circles
NothingToWorkOn ==
    /\ ret.op \in ConstructionOps
    /\ \A i \in DOMAIN Before :
          \/ ~Admits(FilterOf(ret.args), Before[i].layer)
          \/ Before[i].kind
               \notin (IF ret.op \in {"inscribe_circles_in_squares",
                                      "draw_triangle_roof_over_largest_square"}
                       THEN {"polyline", "line"} ELSE {"circle"})

C7_SuccessHasCountAndLayer ==
    (ret.op \in ConstructionOps /\ ~ret.raised /\ ret.val.ok)
    => /\ "inserted" \in DOMAIN ret.val
       /\ "layer" \in DOMAIN ret.val

\* C7: a construction tool that succeeds returns
\*  - inscribe_circles_in_squares, inscribe_squares_in_circles: ok, inserted
\*    and layer (the target layer), where inserted counts the draw calls that
\*    returned: it is the number of primitives emitted, except that a
\*    primitive whose layer assignment threw stays in the drawing uncounted;
\*  - the roof tool: ok and handle, the handle of the one polyline emitted,
\*    with neither a count nor a layer;
\*  - the snowman tool: ok and base_circle, the circle of the drawing it built
\*    on, with neither a count nor a layer.
C7_SuccessResultByTool ==
    (ret.op \in ConstructionOps /\ ~ret.raised /\ ret.val.ok)
    => CASE ret.op = "draw_triangle_roof_over_largest_square" ->
              /\ DOMAIN ret.val = {"ok", "handle"}
              /\ Len(Emitted) = 1
              /\ ret.val.handle = Len(ms)
         [] ret.op = "make_snowman_from_circle" ->
              /\ DOMAIN ret.val = {"ok", "base_circle"}
              /\ ret.val.base_circle.handle \in DOMAIN Before
              /\ Before[ret.val.base_circle.handle].kind = "circle"
              /\ Len(Emitted) >= 5
         [] OTHER ->
              /\ DOMAIN ret.val = {"ok", "inserted", "layer"}
              /\ ret.val.inserted <= Len(Emitted)
              /\ (\A k \in DOMAIN ret.args.faults : ret.args.faults[k] # "layer")
                    => ret.val.inserted = Len(Emitted)
              /\ ret.val.layer = ret.args.layer_name
              /\ \A i \in DOMAIN Emitted : Emitted[i].layer = ret.args.layer_name

\* inscribe_circles_in_squares has succeeded with one circle emitted and
\* another refused by the sink
C7_Witness ==
    /\ ret.op = "inscribe_circles_in_squares"
    /\ ~ret.raised
    /\ ret.val.ok
    /\ FaultAt(ret.args.faults, 2) = "add"
    /\ ret.val.inserted = 1
    /\ Len(Emitted) = 1

\* the vertices of a polyline entity that stores x, y, z per vertex
Corners(e) == [j \in 1..(Len(e.coords) \div 3) |-> <<e.coords[3 * j - 2], e.coords[3 * j - 1]>>]

\* the bounding box of a non-empty set of points
BoxOf(P) == << <<MinOf({p[1] : p \in P}), MinOf({p[2] : p \in P})>>,
               <<MaxOf({p[1] : p \in P}), MaxOf({p[2] : p \in P})>> >>

BoxArea(b) == (b[2][1] - b[1][1]) * (b[2][2] - b[1][2])

\* the closed polylines of the drawing that the last call's source layer lets
\* through
ClosedPolygons ==
    {i \in DOMAIN Before : /\ Before[i].kind = "polyline"
                           /\ Before[i].closed
                           /\ Admits(ret.args.layer_source, Before[i].layer)}

\* the coordinates of the roof polyline over the box b: left eave, right
\* eave, apex, left eave
ExpectedRoof(b, args) ==
    LET minx == b[1][1]
        miny == b[1][2]
        maxx == b[2][1]
        maxy == b[2][2]
    IN  << minx - args.overhang, maxy, 0,
           maxx + args.overhang, maxy, 0,
           (minx + maxx) \div 2, maxy + (args.height_ratio * (maxy - miny)) \div 100, 0,
           minx - args.overhang, maxy, 0 >>

\* C8 as the specification states it: with a closed polygon on the source
\* layer, the roof is built over a closed polygon of the largest bounding-box
\* area.
C8_LargestBoundingBox ==
    ( /\ ret.op = "draw_triangle_roof_over_largest_square"
      /\ ClosedPolygons # {}
      /\ ~ret.raised )
    => /\ ret.val.ok
       /\ Len(Emitted) = 1
       /\ \E i \in ClosedPolygons :
             /\ \A j \in ClosedPolygons :
                   BoxArea(BoxOf(Range(Corners(Before[j])))) <= BoxArea(BoxOf(Range(Corners(Before[i]))))
             /\ Emitted[1].coords = ExpectedRoof(BoxOf(Range(Corners(Before[i]))), ret.args)

\* the first closed polygon, in drawing order, of the greatest polygon area
LargestByArea ==
    CHOOSE i \in ClosedPolygons :
        /\ \A j \in ClosedPolygons :
              Abs(ShoelaceSum(Corners(Before[j]))) <= Abs(ShoelaceSum(Corners(Before[i])))
        /\ \A j \in ClosedPolygons :
              j < i => Abs(ShoelaceSum(Corners(Before[j]))) < Abs(ShoelaceSum(Corners(Before[i])))

\* C8: with a closed polyline of three or more vertices and non-zero area on
\* the source layer, the roof is built over the bounding box of the closed
\* polyline of the largest polygon (shoelace) area, the first in drawing order
\* among equals, whatever its shape; when AddPolyline throws the tool raises
\* and emits nothing, and when the layer assignment throws it raises with the
\* roof left in the drawing.
C8_LargestPolygonArea ==
    ( /\ ret.op = "draw_triangle_roof_over_largest_square"
      /\ ClosedPolygons # {} )
    => IF FirstThrew
       THEN ret.raised /\ Emitted = <<>>
       ELSE /\ Len(Emitted) = 1
            /\ Emitted[1].coords
               = ExpectedRoof(BoxOf(Range(Corners(Before[LargestByArea]))), ret.args)
            /\ ret.raised <=> ( /\ FaultAt(ret.args.faults, 1) = "layer"
                                /\ OrElse(ret.args.layer_result, ret.args.layer_source) # NoLayer )
            /\ ~ret.raised => ret.val.ok

\* a roof has been built over a polygon whose bounding box is smaller than
\* that of another closed polygon of the drawing
C8_Witness ==
    /\ ret.op = "draw_triangle_roof_over_largest_square"
    /\ Cardinality(ClosedPolygons) = 2
    /\ ~ret.raised
    /\ ret.val.ok
    /\ Len(Emitted) = 1
    /\ \E j \in ClosedPolygons :
          BoxArea(BoxOf(Range(Corners(Before[j]))))
          > BoxArea(BoxOf(Range(Corners(Before[LargestByArea]))))
    /\ Emitted[1].coords = ExpectedRoof(BoxOf(Range(Corners(Before[LargestByArea]))), ret.args)

\* the drawings of the four edges of a rectangle as lines, each with the
\* rectangle it draws
RectFromLines ==
    LET Rects == {q \in BaseSeqs : IsRectSeq(q)}
    IN  [d \in RectLineScenes |->
            CHOOSE q \in Rects : \E flip \in Flips : d = EdgeLines(q, Identity4, flip, "0")]

\* C9 as the specification states it: when the drawing holds only the four
\* line segments of a non-square rectangle, the roof tool detects the
\* rectangle and emits a roof over it.
C9_RoofOverRectangleFromLines ==
    ( /\ ret.op = "draw_triangle_roof_over_largest_square"
      /\ Before \in DOMAIN RectFromLines
      /\ ~IsSquareSeq(RectFromLines[Before])
      /\ Admits(ret.args.layer_source, "0")
      /\ SinkWorked )
    => /\ ~ret.raised
       /\ ret.val.ok
       /\ Len(Emitted) = 1
       /\ Emitted[1].coords = ExpectedRoof(BoxOf(Range(RectFromLines[Before])), ret.args)

\* C9: when no closed polyline is found the roof tool falls back to
\* find_squares with lines included and rectangles not allowed: over the four
\* line segments of a square it emits, with a working sink, a roof over the
\* square's bounding box; over the four line segments of a non-square
\* rectangle it emits nothing and returns ok = false with reason "no_squares".
C9_FallbackFindsSquaresOnly ==
    ( /\ ret.op = "draw_triangle_roof_over_largest_square"
      /\ Before \in DOMAIN RectFromLines
      /\ Admits(ret.args.layer_source, "0") )
    => IF IsSquareSeq(RectFromLines[Before])
       THEN SinkWorked =>
                 /\ ~ret.raised
                 /\ ret.val.ok
                 /\ Len(Emitted) = 1
                 /\ Emitted[1].coords
                    = ExpectedRoof(BoxOf(Range(RectFromLines[Before])), ret.args)
       ELSE /\ ~ret.raised
            /\ ret.val = [ok |-> FALSE, reason |-> "no_squares"]
            /\ Emitted = <<>>

\* the roof tool has run on the four line segments of a non-square rectangle
\* and found no square
C9_Witness ==
    /\ ret.op = "draw_triangle_roof_over_largest_square"
    /\ Before \in DOMAIN RectFromLines
    /\ ~IsSquareSeq(RectFromLines[Before])
    /\ ret.args.layer_source = NoLayer
    /\ SinkWorked
    /\ ret.val = [ok |-> FALSE, reason |-> "no_squares"]

\* the bounding boxes a roof can be built over: that of each closed polyline
\* let through, and that of the line segments let through
SourceBoxes ==
    {BoxOf(Range(Corners(Before[i]))) : i \in ClosedPolygons}
    \cup LET ends == UNION { {<<Before[i].coords[1], Before[i].coords[2]>>,
                              <<Before[i].coords[3], Before[i].coords[4]>>} :
                             i \in {k \in DOMAIN Before :
                                      /\ Before[k].kind = "line"
                                      /\ Admits(ret.args.layer_source, Before[k].layer)} }
         IN  IF ends = {} THEN {} ELSE {BoxOf(ends)}

\* C10: a roof call that succeeds emits exactly one primitive, a polyline on
\* the result layer, closed unless the sink refused the flag, whose points
\* are, for the selected bounding box (minx,miny)-(maxx,maxy):
\* (minx-overhang, maxy), (maxx+overhang, maxy),
\* ((minx+maxx)/2, maxy + height_ratio*(maxy-miny)) and (minx-overhang, maxy)
\* again, four points and no more.
C10_RoofIsOneClosedTriangle ==
    ( /\ ret.op = "draw_triangle_roof_over_largest_square"
      /\ ~ret.raised
      /\ ret.val.ok )
    => /\ Len(Emitted) = 1
       /\ Emitted[1].kind = "polyline"
       /\ Emitted[1].closed <=> FaultAt(ret.args.faults, 1) # "closed"
       /\ Emitted[1].layer = OrElse(ret.args.layer_result, OrElse(ret.args.layer_source, "0"))
       /\ Len(Emitted[1].coords) = 12
       /\ \E b \in SourceBoxes : Emitted[1].coords = ExpectedRoof(b, ret.args)

\* a roof with an overhang has been emitted on the result layer
C10_Witness ==
    /\ ret.op = "draw_triangle_roof_over_largest_square"
    /\ ~ret.raised
    /\ ret.val.ok
    /\ SinkWorked
    /\ Emitted[1].closed
    /\ ret.args.overhang > 0
    /\ ret.args.height_ratio = 100
    /\ ret.args.layer_result = "R"
    /\ Len(Emitted) = 1
    /\ Len(Emitted[1].coords) = 12
    /\ Emitted[1].layer = "R"

---------------------------------------------------------------------------
(* C11: the snowman *)

\* the circles of the drawing the snowman call could choose from
SourceCircles ==
    {i \in DOMAIN Before : Before[i].kind = "circle"
                           /\ Admits(ret.args.layer_source, Before[i].layer)}

\* the snowman call returned its base circle
SnowmanBuilt ==
    /\ ret.op = "make_snowman_from_circle"
    /\ ~ret.raised
    /\ ret.val.ok

\* C11: a snowman call that succeeds is built on a circle of the greatest
\* radius R among the circles let through by layer_source; it emits, in
\* order, the base, middle and head circles of radii R, 0.7 R and 0.5 R, all
\* centred on the base's cx, each boundary 0.1 R above the one before, then
\* two equal eye circles at the same height and at equal distances either
\* side of cx; with the arms it emits two lines and two circles more, with
\* the legs two lines and two circles more: 5 + 4*arms + 4*legs primitives.
C11_SnowmanFromLargestCircle ==
    SnowmanBuilt =>
        LET base == ret.val.base_circle
            R == base.radius
            cx == base.center[1]
            cy == base.center[2]
            E == Emitted
            arms == IF ret.args.draw_arms THEN 1 ELSE 0
            legs == IF ret.args.draw_legs THEN 1 ELSE 0
            Top(e) == e.coords[2] + e.r
            Bottom(e) == e.coords[2] - e.r
        IN  /\ \E i \in SourceCircles : Before[i].r = R /\ Before[i].coords = base.center
            /\ \A i \in SourceCircles : Before[i].r <= R
            /\ Len(E) = 5 + 4 * arms + 4 * legs
            /\ \A k \in 1..5 : E[k].kind = "circle"
            /\ \A k \in 1..3 : E[k].coords[1] = cx
            /\ E[1].coords[2] = cy
            /\ E[1].r = R
            /\ 100 * E[2].r = 70 * R
            /\ 100 * E[3].r = 50 * R
            /\ 100 * (Bottom(E[2]) - Top(E[1])) = 10 * R
            /\ 100 * (Bottom(E[3]) - Top(E[2])) = 10 * R
            /\ E[4].coords[1] + E[5].coords[1] = 2 * cx
            /\ E[4].coords[1] < cx
            /\ E[4].coords[2] = E[5].coords[2]
            /\ E[4].r = E[5].r
            /\ \A k \in 0..(arms + legs - 1) :
                  /\ E[6 + 4 * k].kind = "line" /\ E[7 + 4 * k].kind = "circle"
                  /\ E[8 + 4 * k].kind = "line" /\ E[9 + 4 * k].kind = "circle"

\* a snowman with arms and legs, built on the second, larger circle of two
C11_Witness ==
    /\ SnowmanBuilt
    /\ Len(Before) = 2
    /\ Before[1].r < Before[2].r
    /\ ret.val.base_circle.radius = Before[2].r
    /\ ret.args.draw_arms
    /\ ret.args.draw_legs
    /\ Len(Emitted) = 13

---------------------------------------------------------------------------
(* C12: endpoints within the positional tolerance *)

\* the end points of the line entities of the drawing
EndPoints ==
    UNION { {<<Before[i].coords[1], Before[i].coords[2]>>,
             <<Before[i].coords[3], Before[i].coords[4]>>} :
            i \in {k \in DOMAIN Before : Before[k].kind = "line"} }

\* p and q are within tol of each other in both coordinates (ticks against
\* quarter ticks)
WithinTol(p, q, tol) == 4 * Abs(p[1] - q[1]) <= tol /\ 4 * Abs(p[2] - q[2]) <= tol

\* C12: in a find_squares call, any two line end points within pos_tol of
\* each other in both coordinates get the same key, so they are one node of
\* the segment graph.
C12_NearEndpointsShareKey ==
    ret.op = "find_squares" =>
        \A p \in EndPoints, q \in EndPoints :
            WithinTol(p, q, ret.args.pos_tol)
                => key_pt(p, ret.args.pos_tol) = key_pt(q, ret.args.pos_tol)

\* the four sides of a square drawn as lines whose ends at one corner are a
\* tick apart, searched with a tolerance of two ticks, are not found to be a
\* loop
C12_SplitCorner ==
    /\ ret.op = "find_squares"
    /\ ret.args.pos_tol = 8
    /\ Before = NudgedLines(<<<<0, 0>>, <<100, 0>>, <<100, 100>>, <<0, 100>>>>, <<1, 0>>, <<2, 0>>)
    /\ ret.val.squares = <<>>

---------------------------------------------------------------------------
(* C13: polygons before segments, and the cap *)

\* the positions of the result whose shape came from the given source
FromSource(src) == {i \in DOMAIN ret.val.squares : ret.val.squares[i].source = src}

\* C13: in a find_squares result every polygon-sourced shape comes before
\* every segment-sourced shape, and once the polygon-sourced shapes reach
\* max_count no segment-sourced shape is reported.
C13_PolygonsFirstThenCap ==
    ret.op = "find_squares" =>
        /\ \A i \in FromSource("polyline"), j \in FromSource("lines") : i < j
        /\ Cardinality(FromSource("polyline")) >= ret.args.max_count
              => FromSource("lines") = {}

---------------------------------------------------------------------------
(* C14: what every reported shape satisfies *)

\* tan of an angular tolerance given in tenths of a degree, in millionths
TanPpm(tenths) ==
    CASE tenths = 10 -> 17455
      [] tenths = 50 -> 87489

\* the corner a-b-c is within tol (tenths of a degree, below 90 degrees) of a
\* right angle: |cot| <= tan(tol), on the exact dot and cross products
RightWithin(a, b, c, tol) ==
    LET u == <<a[1] - b[1], a[2] - b[2]>>
        v == <<c[1] - b[1], c[2] - b[2]>>
    IN  1000 * Abs(Dot(u, v)) <= ((TanPpm(tol) \div 10) * Abs(Cross(u, v))) \div 100

\* the side from p to q is at least min_side (quarter ticks) long
LongEnough(p, q, min_side) ==
    16 * ((p[1] - q[1]) * (p[1] - q[1]) + (p[2] - q[2]) * (p[2] - q[2])) >= min_side * min_side

\* the vertex list vs passes the side and angle requirements of args
WellFormed(vs, args) ==
    /\ Len(vs) = 4
    /\ \A i \in 1..4 :
          /\ LongEnough(vs[i], NextPt(vs, i), args.min_side)
          /\ RightWithin(vs[i], NextPt(vs, i), NextPt(vs, (i % 4) + 1), args.ang_tol_deg)

\* the quadrilateral the drawing shows: the vertices of its one closed
\* polyline, or the corners of its four lines when each starts where the one
\* before ends; <<>> for any other drawing
DrawnLoop ==
    IF Len(Before) = 1 /\ Before[1].kind = "polyline" /\ Len(Before[1].coords) = 12
    THEN Corners(Before[1])
    ELSE IF /\ Len(Before) = 4
            /\ \A i \in 1..4 :
                  /\ Before[i].kind = "line"
                  /\ SubSeq(Before[i].coords, 3, 4) = SubSeq(Before[(i % 4) + 1].coords, 1, 2)
    THEN [i \in 1..4 |-> <<Before[i].coords[1], Before[i].coords[2]>>]
    ELSE <<>>

\* vs has three vertices in line
HasCollinear(vs) ==
    \E i \in 1..4 :
        Cross(<<vs[i][1] - NextPt(vs, i)[1], vs[i][2] - NextPt(vs, i)[2]>>,
              <<NextPt(vs, (i % 4) + 1)[1] - NextPt(vs, i)[1],
                NextPt(vs, (i % 4) + 1)[2] - NextPt(vs, i)[2]>>) = 0

\* vs has a side shorter than min_side
HasShortSide(vs, min_side) == \E i \in 1..4 : ~LongEnough(vs[i], NextPt(vs, i), min_side)

C14_CollinearSearched ==
    /\ ret.op = "find_squares"
    /\ DrawnLoop # <<>>
    /\ HasCollinear(DrawnLoop)
    /\ ret.args.allow_rectangles
    /\ ret.args.rel_len_tol = 20
    /\ ret.args.ang_tol_deg = 50
    /\ ret.val.squares = <<>>

---------------------------------------------------------------------------
(* C15: the absolute tolerance of the side comparison *)

\* every side of the rectangle vs is near the mean side, with abs_tol the
\* absolute tolerance of the comparison
SidesNearMean(vs, rel_len_tol, abs_tol) ==
    \A i \in 1..4 : _near(Sides(vs)[i], RDiv(SumSeq(Sides(vs)), 4), rel_len_tol, abs_tol)

\* C15: the side comparison of find_squares takes the caller's pos_tol as its
\* absolute tolerance: an axis-aligned rectangle drawn as a closed polyline,
\* its sides long enough, searched without allow_rectangles, is reported
\* exactly when each side is within rel_len_tol or pos_tol of the mean side.
C15_SideCheckUsesCallerPosTol ==
    ( /\ ret.op = "find_squares"
      /\ ~ret.args.allow_rectangles
      /\ Len(Before) = 1
      /\ Before[1].kind = "polyline"
      /\ DrawnLoop # <<>>
      /\ IsRectSeq(DrawnLoop)
      /\ IsAxisAligned(DrawnLoop)
      /\ ~HasShortSide(DrawnLoop, ret.args.min_side) )
    => ( ret.val.squares # <<>>
         <=> SidesNearMean(DrawnLoop, ret.args.rel_len_tol, ret.args.pos_tol) )

---------------------------------------------------------------------------
(* C16: the square inscribed in a circle *)

\* the positions, in drawing order, of the circles the last call's layer
\* filter lets through
FilteredCircles ==
    SelectSeq([i \in DOMAIN Before |-> i],
              LAMBDA i : Before[i].kind = "circle" /\ Admits(FilterOf(ret.args), Before[i].layer))

\* h is r / sqrt(2) to the nearest tick
IsOverSqrt2(h, r) == (2 * h - 1) * (2 * h - 1) <= 2 * r * r /\ 2 * r * r <= (2 * h + 1) * (2 * h + 1)

\* e is a closed polyline on the layer through the corners of the
\* axis-aligned square of half side h about c, from (cx-h, cy-h) and back
IsSquareAbout(e, c, h, layer) ==
    /\ e.kind = "polyline"
    /\ e.closed
    /\ e.layer = layer
    /\ e.coords = << c[1] - h, c[2] - h, 0,  c[1] + h, c[2] - h, 0,  c[1] + h, c[2] + h, 0,
                     c[1] - h, c[2] + h, 0,  c[1] - h, c[2] - h, 0 >>

\* C16: when the sink works and the cap is not below the number of circles,
\* inscribe_squares_in_circles emits, for each circle the layer filter lets
\* through and in their order, one closed axis-aligned square on the result
\* layer with base corner (cx-h, cy-h) and side 2h, h = r / sqrt(2): centred
\* on the circle's centre, its diagonal the circle's diameter; and it reports
\* that many inserted.
C16_SquareInscribedInEachCircle ==
    ( /\ ret.op = "inscribe_squares_in_circles"
      /\ SinkWorked
      /\ Len(FilteredCircles) <= ret.args.max_count )
    => /\ ~ret.raised
       /\ ret.val.inserted = Len(FilteredCircles)
       /\ Len(Emitted) = Len(FilteredCircles)
       /\ \A k \in DOMAIN FilteredCircles :
             LET c == Before[FilteredCircles[k]]
             IN  \E h \in 1..c.r :
                    /\ IsOverSqrt2(h, c.r)
                    /\ IsSquareAbout(Emitted[k], c.coords, h, ret.args.layer_name)

\* the circle of radius 100 about (0,0), and a second circle, each with its
\* square: the first of half side 71
C16_Witness ==
    /\ ret.op = "inscribe_squares_in_circles"
    /\ SinkWorked
    /\ Len(Before) = 2
    /\ Len(FilteredCircles) = 2
    /\ Before[1].coords = <<0, 0>>
    /\ Before[1].r = 100
    /\ Before[2].r = 200
    /\ Len(Emitted) = 2
    /\ IsSquareAbout(Emitted[1], <<0, 0>>, 71, "CIRCLES_YELLOW")

---------------------------------------------------------------------------
(* C17 *)

\* the circles the call finds in the model space as it was when the call began
CirclesAtStart == Cardinality({k \in 1..pc.n0 : _is_type(ms[k], "circle") /\ ~LayerSkips(ms[k], pc.args.layer_filter)})

\* C17: inscribe_squares_in_circles, which adds rectangles to the model space
\* it is iterating over, never has added more entities than there were circles
\* when the call began, and a call that has started returns, also when the
\* iteration goes on to the entities the call has added itself.
C17_InscribeSquaresTerminates ==
    /\ [](pc.state # "idle" => Len(ms) - pc.n0 <= CirclesAtStart)
    /\ (pc.state = "running") ~> (pc.state = "done")

\* a call has returned whose iteration went through the two rectangles the
\* call had added for two circles
C17_Witness ==
    /\ pc.state = "done"
    /\ pc.live
    /\ CirclesAtStart = 2
    /\ Len(ms) = pc.n0 + 2
    /\ pc.i = Len(ms) + 1

---------------------------------------------------------------------------
(* C18 *)

\* the drawing before the call without the primitives that cannot be read
Clean == SelectSeq(Before, Readable)

\* the place in the drawing of the j-th primitive that can be read
PlaceOf(j) == CHOOSE i \in 1..Len(Before) : Readable(Before[i]) /\ Cardinality({k \in 1..i : Readable(Before[k])}) = j

\* the circles found in Clean, each under the handle it has in the drawing
CleanCircles == LET Placed(cs) == [j \in DOMAIN cs |-> [cs[j] EXCEPT !.handle = PlaceOf(@)]] IN Placed(find_circles(Clean, ret.args.layer, ret.args.min_radius, ret.args.max_count))

\* C18: a line or a circle whose geometry cannot be read is passed over:
\* find_squares, find_circles and inscribe_squares_in_circles do not raise on
\* account of it and report, or draw for, exactly what they would if the
\* primitive were not in the drawing.
C18_UnreadableSkipped ==
    /\ ret.op = "find_squares" =>
         /\ ~ret.raised
         /\ \E order \in Orderings(LoopsOf(Clean, ret.args.layer, ret.args.pos_tol)) :
              ret.val.squares = find_squares(Clean, ret.args.layer, ret.args.include_lines, ret.args.pos_tol, ret.args.ang_tol_deg, ret.args.rel_len_tol, ret.args.min_side, ret.args.max_count, ret.args.allow_rectangles, order)
    /\ ret.op = "find_circles" => ~ret.raised /\ ret.val.circles = CleanCircles
    /\ ret.op = "inscribe_squares_in_circles" =>
         LET Same(o) == /\ ret.raised = o.raised
                        /\ ret.val = o.val
                        /\ Emitted = SubSeq(o.space, Len(Clean) + 1, Len(o.space))
         IN  Same(inscribe_squares_in_circles(Clean, layers, active, ret.args.layer_name, ret.args.layer_filter, ret.args.max_count, ret.args.faults))

\* find_squares reported the rectangle of four lines with an unreadable line
\* drawn between them
C18_Witness ==
    /\ ret.op = "find_squares"
    /\ Len(ret.val.squares) = 1
    /\ ret.val.squares[1].source = "lines"
    /\ Len(Before) = 5
    /\ ~Readable(Before[3]) /\ Before[3].kind = "line" /\ Before[3].layer = "0"

---------------------------------------------------------------------------
(* C19 *)

\* C19 as the specification states it: when drawing the circle fails for some
\* of the detected shapes, inscribe_circles_in_squares still returns ok, and
\* its inserted is the number of circles the call left in the drawing.
C19_InsertedIsCirclesEmitted ==
    (ret.op = "inscribe_circles_in_squares" /\ ~ret.raised)
    => /\ ret.val.ok
       /\ ret.val.inserted = Cardinality({k \in DOMAIN Emitted : Emitted[k].kind = "circle"})

---------------------------------------------------------------------------
(* C20 *)

\* an input line joins the points a and b
Joined(a, b) ==
    \E i \in DOMAIN Before :
        /\ Before[i].kind = "line"
        /\ Readable(Before[i])
        /\ {<<Before[i].coords[1], Before[i].coords[2]>>, <<Before[i].coords[3], Before[i].coords[4]>>} = {a, b}

\* C20 as the specification states it: every shape find_squares reports with
\* source "lines" has an input segment along each of its four sides v0v1,
\* v1v2, v2v3, v3v0; a bow-tie (two opposite sides and both diagonals) is not
\* reported.
C20_SidesAreInputSegments ==
    ret.op = "find_squares"
    => \A k \in DOMAIN ret.val.squares :
          ret.val.squares[k].source = "lines"
          => \A j \in 1..4 : Joined(ret.val.squares[k].vertices[j], NextPt(ret.val.squares[k].vertices, j))

---------------------------------------------------------------------------
(* C21 *)

\* C21 as the specification states it: when the drawing is the four edges of
\* one square as lines, in any order and with either end of each line as its
\* start, the loops assembled from the lines are exactly one and find_squares
\* with include_lines reports exactly one shape.
C21_OneLoopPerSquare ==
    ( /\ ret.op = "find_squares"
      /\ ret.args.include_lines
      /\ Admits(ret.args.layer, "0")
      /\ Before \in DOMAIN SquareFromLines )
    => /\ Cardinality(LoopsOf(Before, ret.args.layer, ret.args.pos_tol)) = 1
       /\ Len(ret.val.squares) = 1

---------------------------------------------------------------------------
(* C22 *)

\* C22 as the specification states it: the roof is only ever built over a
\* detected square or rectangle, that is over the bounding box of a shape
\* find_squares reports on the source layer with lines included and
\* rectangles allowed; a closed triangle is never the base.
C22_RoofBaseIsDetectedShape ==
    (ret.op = "draw_triangle_roof_over_largest_square" /\ ~ret.raised /\ ret.val.ok)
    => \E order \in Orderings(LoopsOf(Before, ret.args.layer_source, POS_TOL)) :
          LET OverOneOf(sqs) == \E k \in DOMAIN sqs : Emitted[1].coords = ExpectedRoof(sqs[k].bbox, ret.args)
          IN  OverOneOf(find_squares(Before, ret.args.layer_source, TRUE, POS_TOL, ANG_TOL_DEG, REL_LEN_TOL, MIN_SIDE, SQUARES_MAX, TRUE, order))

---------------------------------------------------------------------------
(* C30 *)

\* C30 as the specification states it: the vertex list find_closed_polylines
\* extracts from a closed polyline is the polyline's own vertex list, in
\* order and without a repeated closing point, whether the coordinates come
\* as (x, y) pairs or as (x, y, z) triples, for every number of vertices.
C30_VerticesAsDrawn ==
    ret.op = "find_closed_polylines"
    => \A d \in ManyVertexPolys :
          ( /\ Before = <<PolyEnt(d.pts, d.dim, d.dup, d.layer, TRUE)>>
            /\ Admits(ret.args.layer, d.layer)
            /\ ret.args.min_vertices <= Len(d.pts) )
          => /\ Len(ret.val.polylines) = 1
             /\ ret.val.polylines[1].vertices = d.pts


---------------------------------------------------------------------------
(* C23: the attempts of a step *)

\* the step under way, or the one run stopped at
StepAt == frame.remaining[frame.step_idx + 1]

\* _run_step is under way, or it has returned and run has not gone on
InStep == frame.at \in {"try", "judge", "replan"} \/ (frame.at = "returned" /\ frame.line = 101)

\* the invocation returned a dict with truthy 'ok'
ReturnedOk(res) == ~res.raised /\ "ok" \in DOMAIN res.val /\ res.val.ok = TRUE

\* C23: in _run_step the tool of a step is invoked at most STEP_RETRIES times;
\* it is not invoked again once an attempt returned a dict with truthy 'ok';
\* the step is reported failed only after every attempt raised or returned a
\* result without truthy 'ok'; a name absent from TOOLS is never invoked and
\* fails the step without an attempt.
C23_AttemptsOfAStep ==
    InStep =>
        /\ Len(frame.tried) <= STEP_RETRIES
        /\ \A i \in 1..(Len(frame.tried) - 1) : ~ReturnedOk(frame.tried[i])
        /\ (frame.at # "try" /\ ~frame.ok /\ StepAt \in TOOLS) =>
               /\ Len(frame.tried) = STEP_RETRIES
               /\ \A i \in 1..Len(frame.tried) : ~ReturnedOk(frame.tried[i])
        /\ StepAt \notin TOOLS => frame.tried = <<>> /\ (frame.at # "try" => ~frame.ok)

\* a step whose first attempt raised and whose second succeeded
C23_Witness ==
    /\ frame.at = "judge"
    /\ frame.ok
    /\ Len(frame.tried) = STEP_RETRIES
    /\ frame.tried[1].raised

---------------------------------------------------------------------------
(* C24: the replans of a run *)

\* C24: within one run the replans performed never exceed max_replans,
\* whatever the steps and the replanner do, and the counter of replans
\* starts from 0 at the beginning of every run: it always equals the number
\* of replans of the run under way.
C24_ReplansWithinBudget ==
    frame.at # "idle" =>
        /\ self._replans_done = frame.replanned
        /\ frame.replanned <= self.max_replans

\* a second run that has used its whole budget of replans
C24_Witness ==
    /\ frame.runs = MaxRuns
    /\ self.max_replans = MaxReplans
    /\ frame.replanned = self.max_replans
    /\ frame.at = "judge"
    /\ ~frame.ok

---------------------------------------------------------------------------
(* C25: when the replanner is called *)

\* _run_step has returned a failed step or an unclear result
StepUnclear == ~frame.ok \/ ~_is_result_clear(frame.result)

\* C25: with replan_mode = 'never' the replanner is never called and the
\* first step that fails or returns an unclear result makes run return False,
\* no later step being executed; with replan_mode = 'on_error' the replanner
\* is called only after a failed or unclear step, never after a successful
\* clear one.
C25_ReplanOnlyOnError ==
    [][/\ self.replan_mode = "never" =>
              /\ frame'.asked = 0
              /\ frame'.at # "replan"
              /\ (frame.at = "judge" /\ StepUnclear /\ frame' # frame) =>
                     /\ frame'.at = "returned"
                     /\ frame'.value = FALSE
                     /\ frame'.steps_done = frame.steps_done + 1
       /\ (frame.at = "returned" /\ frame' # frame) => frame'.runs = frame.runs + 1
       /\ (frame'.at = "replan" \/ frame'.asked > frame.asked) =>
              /\ frame.at \in {"judge", "replan"}
              /\ StepUnclear
              /\ self.replan_mode = "on_error"]_vars

\* without replans, a run has returned False at a step that was not the
\* last of its plan
C25_Witness ==
    /\ self.replan_mode = "never"
    /\ frame.at = "returned"
    /\ frame.line = 101
    /\ frame.step_idx + 1 < Len(frame.remaining)
    /\ frame.asked = 0

---------------------------------------------------------------------------
(* C26: stop() *)

\* run is at a step boundary with the stop flag set, and goes on
StoppedAtBoundary == self._stop /\ frame.at = "head" /\ frame' # frame

\* C26 as stated: once stop() has been called during a run (a step of it
\* has been run, so the flag was not set when it began), run starts no
\* further step and returns False at the next step boundary.
C26_StopReturnsFalse ==
    [][(StoppedAtBoundary /\ frame.steps_done >= 1) =>
           frame'.at = "returned" /\ frame'.value = FALSE]_vars

\* C26, amended: once stop() has been called run starts no further step and
\* invokes no tool of a later step; at the next step boundary it returns
\* False when a step remains, and True when the step during which stop() came
\* was the last one and passed.
C26_StopStartsNoStep ==
    [][StoppedAtBoundary =>
           /\ frame'.at = "returned"
           /\ frame'.value = (frame.step_idx >= Len(frame.remaining))
           /\ frame'.tried = frame.tried
           /\ frame'.steps_done = frame.steps_done
           /\ frame'.asked = frame.asked]_vars

\* stopped during its first run after at least one step, run has returned
\* False at the boundary, a step remaining
C26_Witness ==
    /\ frame.runs = 1
    /\ frame.at = "returned"
    /\ frame.line = 71
    /\ frame.value = FALSE
    /\ frame.steps_done >= 1
    /\ frame.step_idx < Len(frame.remaining)

---------------------------------------------------------------------------
(* C27: run returns *)

\* C27: a run on a finite plan eventually returns True or False, every tool
\* call and every call of the replanner returning and every replanned list
\* being finite.
C27_RunReturns == (frame.at = "head") ~> (frame.at = "returned")

---------------------------------------------------------------------------
(* C28: a replanner none of whose models answers *)

\* C28: when a step has failed after all its retries and every model call of
\* the replanner has failed, the replan is skipped: run returns False and no
\* remaining step is executed.
C28_UnansweredReplanIsSkipped ==
    (frame.unanswered /\ ~frame.ok /\ Len(frame.tried) = STEP_RETRIES) =>
        frame.at = "returned" /\ frame.value = FALSE

---------------------------------------------------------------------------
(* C29: the watchdog threads *)

\* C29: the watchdog thread a run started stops once the run has returned, so
\* that an Executor never has more than one live watchdog thread, also across
\* successive calls of run.
C29_OneWatchdog == Cardinality(threads) <= 1

===========================================================================
